---- MODULE Spec2Model ----
(***************************************************************************)
(* Model of the live-captioning core of Mate:                              *)
(*   - CaptionManager  (src/src/mate/audio/caption_manager.py): the        *)
(*     per-channel caption timeline and the active-partial slot;           *)
(*   - WhisperProcessor (src/src/mate/audio/whisper_processor.py): the     *)
(*     per-channel three-layer scheduler (Layer A, Layer B, Layer C).      *)
(*                                                                         *)
(* Text is a sequence of one-character strings, so that lower(), strip(),  *)
(* the substring test, startswith() and difflib's ratio() are computed     *)
(* the way Python computes them.  Confidences are hundredths (0.75 is 75). *)
(* Times are integers; None is the record None, and a missing time is      *)
(* NoneT.                                                                  *)
(***************************************************************************)
EXTENDS Integers, Sequences, FiniteSets, TLC

VARIABLES
    _timeline,        \* CaptionManager._timeline: channel -> list of CaptionBlock
    _active_partial,  \* CaptionManager._active_partial: channel -> CaptionBlock | None
    call,             \* history: the last CaptionManager call, the CaptionBlock
                      \* made from its frame, its return value and the active
                      \* partial it found
    _inserted,        \* history: per channel, the final blocks inserted since the
                      \* channel was constructed or cleared
    _running,         \* WhisperProcessor._running
    chan,             \* WhisperProcessor's per-channel attributes: channel -> record
    now,              \* time.time(), in tenths of a second
    pc,               \* channel -> where its worker stands in _process_loop
    current_time,     \* channel -> current_time of _process_loop
    last_buffer_trim, \* channel -> last_buffer_trim of _process_loop
    uuid_count,       \* the number of uuid.uuid4() calls so far
    emitted,          \* channel -> the frames emitted on "caption.frame", each with
                      \* the number of the utterance that emitted it
    ended,            \* history: channel -> the utterances Layer C finalized, each
                      \* with its caption_id and the text the backend returned
    _buffer_locks,    \* WhisperProcessor._buffer_locks: channel -> the holder
    recent_audio,     \* channel -> the copy of the audio buffer its worker took
                      \* last (recent_audio of Layer A, new_chunks of Layer B)
    total_audio,      \* channel -> total_audio of _trim_audio_buffer while the
                      \* worker is inside it
    trimmed,          \* history: channel -> the audio buffer as the last
                      \* _trim_audio_buffer left it and the number of samples
                      \* captured by then
    engine,           \* the CaptionEngine's attributes
    stt,              \* the attributes of the engine's latest RealtimeSTTProcessor
    capture,          \* the AudioCapture's attributes
    pump,             \* the AudioCapture._pump_queue threads: how many stand at
                      \* the loop test and how many wait on the queue
    _queue,           \* AudioCapture._queue
    published,        \* the number of "audio.devices" events emitted
    produced,         \* channel -> the number of frames its stream called back with
    api,              \* history: the number of start() and stop() calls made,
                      \* the last of them, the running flag it found, the
                      \* call before it and the devices of the last start()
    _subscribers,     \* EventBus._subscribers: topic -> list of handlers
    received,         \* the handler calls the last EventBus call made, in order
    bus,              \* history: the last EventBus call, the subscribers it
                      \* found and the handlers that raise when called
    files,            \* the files in place among those start() looks for
    whisper,          \* WhisperProcessor._whisper_exe, _model_path and
                      \* _model_path_fast
    startup,          \* history: the last start() or stop() of the
                      \* WhisperProcessor, what start() returned, the running
                      \* flag and the files it found
    _vad,             \* WhisperProcessor._vad: channel -> its VADDetector
    since_speech,     \* history: channel -> the number of frames its detector
                      \* saw since the last frame of speech
    seen,             \* history: channel -> window -> the values
                      \* _detect_speech returned for it
    vad_call,         \* history: the last call of a detector or of the gate
    workers,          \* channel -> the _process_loop threads alive: where each
                      \* stands and the run in which it last passed its loop test
    _callbacks,       \* AudioCapture._callbacks: the number of times
                      \* _handle_audio_frame is in it
    restart           \* history: the start() and stop() calls made, the
                      \* starts that went through, the frames delivered and
                      \* what became of the last one

cmVars == <<_timeline, _active_partial, call, _inserted>>

wpVars == <<_running, chan, now, pc, current_time, last_buffer_trim, uuid_count,
            emitted, ended>>

bufVars == <<_buffer_locks, recent_audio, total_audio, trimmed>>

engVars == <<engine, stt, capture, pump, _queue, published, produced, api>>

busVars == <<_subscribers, received, bus>>

startVars == <<files, whisper, startup>>

vadVars == <<_vad, since_speech, seen, vad_call>>

restartVars == <<workers, _callbacks, restart>>

vars == <<_timeline, _active_partial, call, _inserted, _running, chan, now, pc,
          current_time, last_buffer_trim, uuid_count, emitted, ended,
          _buffer_locks, recent_audio, total_audio, trimmed,
          engine, stt, capture, pump, _queue, published, produced, api,
          _subscribers, received, bus, files, whisper, startup,
          _vad, since_speech, seen, vad_call, workers, _callbacks, restart>>

\* What the CaptionManager's operations leave alone.
notCm == <<wpVars, bufVars, engVars, busVars, startVars, vadVars, restartVars>>

\* What the scheduler's operations leave alone.
notWp == <<cmVars, bufVars, engVars, busVars, startVars, vadVars, restartVars>>

\* What the audio buffer's steps leave alone besides the scheduler's state.
notBuf == <<cmVars, engVars, busVars, startVars, vadVars, restartVars>>

\* What the caption engine's operations leave alone.
notEng == <<cmVars, wpVars, bufVars, busVars, startVars, vadVars, restartVars>>

\* What the event bus's operations leave alone.
notBus == <<cmVars, wpVars, bufVars, engVars, startVars, vadVars, restartVars>>

\* What the processor's restarts leave alone besides the scheduler's state.
notStart == <<cmVars, bufVars, engVars, busVars, vadVars, restartVars>>

\* What the voice activity gate's operations leave alone.
notVad == <<cmVars, wpVars, bufVars, engVars, busVars, startVars, restartVars>>

\* What the processor's restarts leave alone besides the scheduler's state,
\* the files and the worker threads.
notRestart == <<cmVars, bufVars, engVars, busVars, vadVars>>

-----------------------------------------------------------------------------
(* Bounds of the model.                                                    *)

\* Times of caption frames are drawn from 0..MaxTime.
MaxTime == 2

\* CaptionManager(max_history=...): the constructor parameter (100 in
\* WhisperProcessor.__init__), scaled down so that the cap is exceeded.
max_history == 2

\* At most MaxFinals pairwise non-overlapping final frames are added to one
\* channel between two clear_channel calls.
MaxFinals == max_history + 2

-----------------------------------------------------------------------------
(* Python values.                                                          *)

None == [none |-> TRUE]

\* A time that is None (CaptionFrame.end_time: float | None = None).
NoneT == -1

Channels == {"mic", "speaker"}

\* Python's `x or y` on an optional float: None and 0.0 are falsy.
OrElse(x, y) == IF x = NoneT \/ x = 0 THEN y ELSE x

Min(a, b) == IF a <= b THEN a ELSE b

Max(a, b) == IF a >= b THEN a ELSE b

-----------------------------------------------------------------------------
(* str operations.                                                         *)

UpperToLower ==
    ("A" :> "a") @@ ("B" :> "b") @@ ("C" :> "c") @@ ("D" :> "d") @@ ("E" :> "e") @@
    ("F" :> "f") @@ ("G" :> "g") @@ ("H" :> "h") @@ ("I" :> "i") @@ ("J" :> "j") @@
    ("K" :> "k") @@ ("L" :> "l") @@ ("M" :> "m") @@ ("N" :> "n") @@ ("O" :> "o") @@
    ("P" :> "p") @@ ("Q" :> "q") @@ ("R" :> "r") @@ ("S" :> "s") @@ ("T" :> "t") @@
    ("U" :> "u") @@ ("V" :> "v") @@ ("W" :> "w") @@ ("X" :> "x") @@ ("Y" :> "y") @@
    ("Z" :> "z")

Whitespace == {" ", "\t", "\n", "\r"}

\* str.lower()
lower(t) == [i \in 1..Len(t) |-> IF t[i] \in DOMAIN UpperToLower THEN UpperToLower[t[i]] ELSE t[i]]

\* str.strip()
strip(t) ==
    LET keep == {i \in 1..Len(t) : t[i] \notin Whitespace}
    IN  IF keep = {} THEN <<>>
        ELSE LET lo == CHOOSE i \in keep : \A j \in keep : i <= j
                 hi == CHOOSE i \in keep : \A j \in keep : i >= j
             IN  SubSeq(t, lo, hi)

\* Python's `a in b` on strings.
contains(b, a) ==
    \E i \in 0..(Len(b) - Len(a)) : SubSeq(b, i + 1, i + Len(a)) = a

\* str.startswith()
startswith(t, p) == Len(p) <= Len(t) /\ SubSeq(t, 1, Len(p)) = p

\* t[:n]
Prefix(t, n) == SubSeq(t, 1, Min(n, Len(t)))

\* difflib.SequenceMatcher.find_longest_match(alo, ahi, blo, bhi) with no junk
\* (isjunk is None; autojunk needs 200 characters): the longest block
\* a[i:i+k] == b[j:j+k], of those the one starting earliest in a, of those
\* the one starting earliest in b.  Indices are Python's (0-based).
find_longest_match(a, b, alo, ahi, blo, bhi) ==
    LET cand == {m \in (alo..(ahi - 1)) \X (blo..(bhi - 1)) \X (1..Min(ahi - alo, bhi - blo)) :
                    /\ m[1] + m[3] <= ahi
                    /\ m[2] + m[3] <= bhi
                    /\ \A d \in 0..(m[3] - 1) : a[m[1] + d + 1] = b[m[2] + d + 1]}
    IN  IF cand = {} THEN <<alo, blo, 0>>
        ELSE CHOOSE m \in cand :
                \A o \in cand :
                    \/ m[3] > o[3]
                    \/ m[3] = o[3] /\ m[1] < o[1]
                    \/ m[3] = o[3] /\ m[1] = o[1] /\ m[2] <= o[2]

\* The sum of the sizes of SequenceMatcher.get_matching_blocks(): the longest
\* match, then recursively the pieces to its left and to its right.
RECURSIVE matching_size(_, _, _, _, _, _)
matching_size(a, b, alo, ahi, blo, bhi) ==
    IF alo >= ahi \/ blo >= bhi THEN 0
    ELSE LET m == find_longest_match(a, b, alo, ahi, blo, bhi)
         IN  IF m[3] = 0 THEN 0
             ELSE m[3] + matching_size(a, b, alo, m[1], blo, m[2])
                       + matching_size(a, b, m[1] + m[3], ahi, m[2] + m[3], bhi)

\* CaptionManager._text_similarity, as the pair <<2*M, T>> of
\* SequenceMatcher.ratio() = 2.0*M/T; <<0, 1>> is the 0.0 of an empty text.
_text_similarity(text1, text2) ==
    LET t1 == strip(lower(text1))
        t2 == strip(lower(text2))
    IN  IF t1 = <<>> \/ t2 = <<>> THEN <<0, 1>>
        ELSE <<2 * matching_size(t1, t2, 0, Len(t1), 0, Len(t2)), Len(t1) + Len(t2)>>

\* similarity > 0.7
SimilarityAbove07(sim) == 10 * sim[1] > 7 * sim[2]

\* The texts of the caption frames fed to CaptionManager.
hello_wor == <<"h", "e", "l", "l", "o", " ", "w", "o", "r">>

hello_world == <<"h", "e", "l", "l", "o", " ", "w", "o", "r", "l", "d">>

Hello_wor == <<"H", "e", "l", "l", "o", " ", "w", "o", "r">>

hello_word == <<"h", "e", "l", "l", "o", " ", "w", "o", "r", "d">>

good_bye == <<"g", "o", "o", "d", " ", "b", "y", "e">>

Texts == {hello_wor, hello_world, Hello_wor, hello_word, good_bye, <<>>}

\* _text_similarity of every pair of Texts, computed once.
similarity_table ==
    {<<p[1], p[2], _text_similarity(p[1], p[2])>> : p \in Texts \X Texts}

\* _text_similarity(text1, text2), looked up for the texts of the table.
text_similarity(text1, text2) ==
    IF \E e \in similarity_table : e[1] = text1 /\ e[2] = text2
    THEN (CHOOSE e \in similarity_table : e[1] = text1 /\ e[2] = text2)[3]
    ELSE _text_similarity(text1, text2)

\* A mutant of _merge_texts: the newer text always wins.
_merge_texts_newer(old_text, new_text) == new_text

\* CaptionManager._merge_texts
_merge_texts(old_text, new_text) ==
    IF contains(lower(new_text), lower(old_text)) THEN new_text
    ELSE IF contains(lower(old_text), lower(new_text)) THEN old_text
    ELSE IF startswith(lower(new_text), lower(Prefix(old_text, 20))) THEN new_text
    ELSE new_text

-----------------------------------------------------------------------------
(* CaptionBlock.                                                           *)

\* The label of a channel's worker thread: the speaker of its frames.
Label == [mic |-> "Mic", speaker |-> "Speaker"]

\* CaptionFrame (without its timestamp field).
Frame(text, channel, confidence, is_partial, start_time, end_time, layer, caption_id) ==
    [text |-> text, speaker |-> Label[channel], channel |-> channel,
     confidence |-> confidence, is_partial |-> is_partial,
     start_time |-> start_time, end_time |-> end_time,
     layer |-> layer, caption_id |-> caption_id]

\* CaptionManager.add_caption: the CaptionBlock made from a CaptionFrame.
CaptionBlock(frame) ==
    [start_time |-> frame.start_time,
     end_time   |-> OrElse(frame.end_time, frame.start_time),
     text       |-> frame.text,
     layer      |-> frame.layer,
     confidence |-> frame.confidence,
     caption_id |-> frame.caption_id,
     channel    |-> frame.channel,
     speaker    |-> frame.speaker,
     is_partial |-> frame.is_partial]

\* A mutant of overlaps: only a block lying inside the other one overlaps it.
overlaps_inside_only(self, other) ==
    self.start_time >= other.start_time /\ self.end_time <= other.end_time

\* CaptionBlock.overlaps
overlaps(self, other) ==
    ~(self.end_time <= other.start_time \/ self.start_time >= other.end_time)

\* _handle_partial: layer_priority
layer_priority == [A |-> 1, B |-> 2, C |-> 3, legacy |-> 0]

\* list.sort(key=lambda b: b.start_time): a stable sort.
RECURSIVE sort_by_start(_)
sort_by_start(s) ==
    IF s = <<>> THEN <<>>
    ELSE LET rest == sort_by_start(SubSeq(s, 1, Len(s) - 1))
             x    == s[Len(s)]
             n    == Cardinality({i \in 1..Len(rest) : rest[i].start_time <= x.start_time})
         IN  SubSeq(rest, 1, n) \o <<x>> \o SubSeq(rest, n + 1, Len(rest))

-----------------------------------------------------------------------------
(* CaptionManager.                                                         *)

\* A mutant of replaces: a layer that is not lower replaces.
replaces_same_layer(block, current_partial) ==
    \/ layer_priority[block.layer] >= layer_priority[current_partial.layer]
    \/ block.confidence - current_partial.confidence > 15

\* _handle_partial: "Replace if higher layer or significantly higher
\* confidence" (confidences in hundredths: 0.15 is 15).
replaces(block, current_partial) ==
    \/ layer_priority[block.layer] > layer_priority[current_partial.layer]
    \/ block.confidence - current_partial.confidence > 15

\* A mutant of _handle_partial: a dissimilar partial overwrites the active one.
_handle_partial_overwrite(current_partial, block) ==
    [partial |-> block, ret |-> block]

\* A mutant of _handle_partial: the similarity merge is tried before the
\* replacement rule.
_handle_partial_similarity_first(current_partial, block) ==
    IF current_partial = None THEN [partial |-> block, ret |-> block]
    ELSE IF SimilarityAbove07(text_similarity(block.text, current_partial.text))
         THEN LET merged == [block EXCEPT !.text = _merge_texts(current_partial.text, block.text)]
              IN  [partial |-> merged, ret |-> merged]
    ELSE IF replaces(block, current_partial) THEN [partial |-> block, ret |-> block]
    ELSE [partial |-> current_partial, ret |-> None]

\* CaptionManager._handle_partial: the new active partial of the channel and
\* the value returned.
_handle_partial(current_partial, block) ==
    IF current_partial = None THEN [partial |-> block, ret |-> block]
    ELSE IF replaces(block, current_partial) THEN [partial |-> block, ret |-> block]
    ELSE IF SimilarityAbove07(text_similarity(block.text, current_partial.text))
         THEN LET merged == [block EXCEPT !.text = _merge_texts(current_partial.text, block.text)]
              IN  [partial |-> merged, ret |-> merged]
         ELSE [partial |-> current_partial, ret |-> None]

\* _handle_final: "Remove all overlapping blocks": list.remove() of every block
\* of the timeline that overlaps the new one (equal blocks overlap it alike).
remove_overlapping(timeline, block) ==
    SelectSeq(timeline, LAMBDA b : ~overlaps(b, block))

\* A mutant of trim_history: the newest block is dropped.
trim_history_newest(timeline) ==
    IF Len(timeline) > max_history THEN SubSeq(timeline, 1, Len(timeline) - 1) ELSE timeline

\* _handle_final: "Trim history if too long": one pop(0).
trim_history(timeline) ==
    IF Len(timeline) > max_history THEN Tail(timeline) ELSE timeline

\* A mutant of cleared_partial: the final leaves the active partial.
cleared_partial_kept(current_partial) == current_partial

\* _handle_final: "Clear active partial (final replaces it)".
cleared_partial(current_partial) == None

\* A mutant of _handle_final: the timeline is not sorted after the append.
_handle_final_unsorted(current_partial, timeline, block) ==
    [partial  |-> cleared_partial(current_partial),
     timeline |-> trim_history(Append(remove_overlapping(timeline, block), block)),
     ret      |-> block]

\* CaptionManager._handle_final: the new active partial, the new timeline and
\* the value returned.
_handle_final(current_partial, timeline, block) ==
    [partial  |-> cleared_partial(current_partial),
     timeline |-> trim_history(sort_by_start(Append(remove_overlapping(timeline, block), block))),
     ret      |-> block]

\* History: the final blocks inserted into a channel so far, kept as long as
\* they are pairwise non-overlapping: their number, their intervals and their
\* start times in ascending order.
inserted_after(ins, block) ==
    LET iv   == [start_time |-> block.start_time, end_time |-> block.end_time]
        disj == ins.disjoint /\ \A o \in ins.blocks : ~(o.end_time > iv.start_time /\ o.start_time < iv.end_time)
        k    == Cardinality({i \in 1..Len(ins.starts) : ins.starts[i] <= iv.start_time})
    IN  [n        |-> IF disj THEN ins.n + 1 ELSE 0,
         disjoint |-> disj,
         blocks   |-> IF disj THEN ins.blocks \cup {iv} ELSE {},
         starts   |-> IF disj THEN SubSeq(ins.starts, 1, k) \o <<iv.start_time>>
                                       \o SubSeq(ins.starts, k + 1, Len(ins.starts))
                      ELSE <<>>]

no_inserted == [n |-> 0, disjoint |-> TRUE, blocks |-> {}, starts |-> <<>>]

\* CaptionManager.__init__
cm_init ==
    /\ _timeline = [c \in Channels |-> <<>>]
    /\ _active_partial = [c \in Channels |-> None]
    /\ call = [op |-> "__init__", channel |-> "mic", block |-> None, ret |-> None, prev |-> None]
    /\ _inserted = [c \in Channels |-> no_inserted]

\* CaptionManager.add_caption
add_caption(frame) ==
    LET block   == CaptionBlock(frame)
        channel == frame.channel
    IN  IF frame.is_partial
        THEN LET r == _handle_partial(_active_partial[channel], block)
             IN  /\ _active_partial' = [_active_partial EXCEPT ![channel] = r.partial]
                 /\ call' = [op |-> "add_caption", channel |-> channel, block |-> block,
                             ret |-> r.ret, prev |-> _active_partial[channel]]
                 /\ UNCHANGED <<_timeline, _inserted>>
        ELSE LET r == _handle_final(_active_partial[channel], _timeline[channel], block)
             IN  /\ _inserted[channel].n < MaxFinals
                 /\ _active_partial' = [_active_partial EXCEPT ![channel] = r.partial]
                 /\ _timeline' = [_timeline EXCEPT ![channel] = r.timeline]
                 /\ _inserted' = [_inserted EXCEPT ![channel] = inserted_after(@, block)]
                 /\ call' = [op |-> "add_caption", channel |-> channel, block |-> block,
                             ret |-> r.ret, prev |-> _active_partial[channel]]

\* A mutant of clear_channel: the active partial is kept.
clear_channel_keeps_partial(channel) ==
    /\ _timeline' = [_timeline EXCEPT ![channel] = <<>>]
    /\ _active_partial' = _active_partial
    /\ _inserted' = [_inserted EXCEPT ![channel] = no_inserted]
    /\ call' = [op |-> "clear_channel", channel |-> channel, block |-> None,
                ret |-> None, prev |-> _active_partial[channel]]

\* A mutant of clear_channel: the timelines and the active partials of both
\* channels are cleared.
clear_channel_every(channel) ==
    /\ _timeline' = [c \in Channels |-> <<>>]
    /\ _active_partial' = [c \in Channels |-> None]
    /\ _inserted' = [c \in Channels |-> no_inserted]
    /\ call' = [op |-> "clear_channel", channel |-> channel, block |-> None,
                ret |-> None, prev |-> _active_partial[channel]]

\* CaptionManager.clear_channel
clear_channel(channel) ==
    /\ _timeline' = [_timeline EXCEPT ![channel] = <<>>]
    /\ _active_partial' = [_active_partial EXCEPT ![channel] = None]
    /\ _inserted' = [_inserted EXCEPT ![channel] = no_inserted]
    /\ call' = [op |-> "clear_channel", channel |-> channel, block |-> None,
                ret |-> None, prev |-> _active_partial[channel]]

\* A mutant of list_copy: the stored list itself is handed out.
list_itself(list) == [list |-> list, shared |-> TRUE]

\* list.copy(): a new list with the same blocks, which shares nothing with
\* the stored one.
list_copy(list) == [list |-> list, shared |-> FALSE]

\* " ".join(texts)
RECURSIVE join(_)
join(texts) ==
    IF texts = <<>> THEN <<>>
    ELSE IF Len(texts) = 1 THEN texts[1]
    ELSE texts[1] \o <<" ">> \o join(Tail(texts))

\* [b for b in timeline if b.end_time >= cutoff_time]
RECURSIVE recent_blocks(_, _)
recent_blocks(timeline, cutoff_time) ==
    IF timeline = <<>> THEN <<>>
    ELSE (IF Head(timeline).end_time >= cutoff_time THEN <<Head(timeline)>> ELSE <<>>)
         \o recent_blocks(Tail(timeline), cutoff_time)

\* CaptionManager.get_timeline
get_timeline(channel) ==
    /\ call' = [op |-> "get_timeline", channel |-> channel, block |-> None,
                ret |-> list_copy(_timeline[channel]), prev |-> _active_partial[channel]]
    /\ UNCHANGED <<_timeline, _active_partial, _inserted>>

\* The caller of get_timeline clears the list it was given; a list shared
\* with the manager is the manager's list.
clear_returned ==
    /\ call.op = "get_timeline"
    /\ call.ret.list # <<>>
    /\ call' = [call EXCEPT !.op = "clear_returned", !.ret.list = <<>>]
    /\ _timeline' = IF call.ret.shared
                    THEN [_timeline EXCEPT ![call.channel] = <<>>]
                    ELSE _timeline
    /\ UNCHANGED <<_active_partial, _inserted>>

\* CaptionManager.get_active_partial
get_active_partial(channel) ==
    /\ call' = [op |-> "get_active_partial", channel |-> channel, block |-> None,
                ret |-> _active_partial[channel], prev |-> _active_partial[channel]]
    /\ UNCHANGED <<_timeline, _active_partial, _inserted>>

\* CaptionManager.get_recent_text at the time current_time
get_recent_text(channel, seconds, time) ==
    LET blocks == recent_blocks(_timeline[channel], time - seconds)
    IN  /\ call' = [op |-> "get_recent_text", channel |-> channel, block |-> None,
                    ret |-> [text |-> join([i \in 1..Len(blocks) |-> blocks[i].text])],
                    prev |-> _active_partial[channel]]
        /\ UNCHANGED <<_timeline, _active_partial, _inserted>>

-----------------------------------------------------------------------------
(* WhisperProcessor: the three-layer scheduler.                            *)
(* Time is in tenths of a second; audio is a sequence of samples, each the *)
(* number of its arrival on its channel.                                   *)

\* capture.settings.sample_rate, in samples per second, scaled down.
_sample_rate == 5

\* The clock stops at MaxClock.
MaxClock == 15

\* At most MaxSamples samples are captured on the microphone channel; the
\* speaker channel has no audio source and captures nothing.
MaxSamples == 3

MaxCaptured == [mic |-> MaxSamples, speaker |-> 0]

\* At most MaxFrames frames are emitted, both channels together.
MaxFrames == 4

\* At most MaxUtterances utterances are started, both channels together.
MaxUtterances == 2

\* self._layer_a_interval = 0.3
_layer_a_interval == 3

\* self._layer_b_step = 0.5
_layer_b_step == 5

\* self._layer_b_window_duration = 2.5
_layer_b_window_duration == 25

\* self._silence_threshold_count = 2
_silence_threshold_count == 2

\* _process_loop: "if current_time - last_buffer_trim > 2.0"
trim_interval == 20

\* int(sample_rate * tenths / 10)
samples_in(sample_rate, tenths) == (sample_rate * tenths) \div 10

\* self._layer_a_min_samples = int(self._sample_rate * 0.2)
_layer_a_min_samples == samples_in(_sample_rate, 2)

\* self._actual_sample_rates.get(channel, self._sample_rate), with no WASAPI
\* rate detected.
channel_sample_rate(channel) == _sample_rate

\* np.concatenate
RECURSIVE concatenate(_)
concatenate(chunks) ==
    IF chunks = <<>> THEN <<>> ELSE Head(chunks) \o concatenate(Tail(chunks))

\* audio_data[-n:] taken when len(audio_data) > n
last_samples(audio_data, n) ==
    IF Len(audio_data) > n
    THEN SubSeq(audio_data, Len(audio_data) - n + 1, Len(audio_data))
    ELSE audio_data

\* The texts whisper-cli prints.
hi == <<"h", "i">>

BackendTexts == {<<>>, hi}

\* What a run of whisper-cli comes to: it prints a text and exits with 0, it
\* exits with another code, it runs into the timeout (TimeoutExpired), or
\* starting it or writing its WAV file raises.
BackendResults ==
    {[raised |-> "", returncode |-> 0, stdout |-> t] : t \in BackendTexts}
    \cup {[raised |-> "", returncode |-> 1, stdout |-> <<>>]}
    \cup {[raised |-> e, returncode |-> 0, stdout |-> <<>>] :
             e \in {"TimeoutExpired", "Exception"}}

\* WhisperProcessor._transcribe_file: the text, or None.
_transcribe_file(result) ==
    IF result.raised # "" THEN None
    ELSE IF result.returncode # 0 THEN None
    ELSE IF strip(result.stdout) # <<>> THEN strip(result.stdout)
    ELSE None

\* A mutant of _transcribe_audio_data: a failed call gives a text that says so.
_transcribe_audio_data_says_error(result) ==
    LET text == _transcribe_file(result)
    IN  IF text # None THEN strip(text) ELSE <<"?">>

\* WhisperProcessor._transcribe_audio_data: the text, "" when there is none
\* or when anything raised.
_transcribe_audio_data(result) ==
    LET text == _transcribe_file(result)
    IN  IF text # None /\ text # <<>> THEN strip(text) ELSE <<>>

\* WhisperProcessor.__init__: the attributes of one channel, and its history:
\* the number of samples captured, the number of utterances started, and the
\* number of Layer B evaluations of the utterance classified silence since its
\* start or its last evaluation classified speech.
channel_init ==
    [_audio_buffer          |-> <<>>,
     _utterance_start       |-> NoneT,
     _utterance_buffer      |-> <<>>,
     _active_caption_id     |-> NoneT,
     _layer_a_accumulated   |-> <<>>,
     _layer_b_accumulated   |-> <<>>,
     _current_layer         |-> "",
     _silence_counter       |-> 0,
     _layer_a_last_process  |-> 0,
     _layer_b_last_process  |-> 0,
     captured               |-> 0,
     utterances             |-> 0,
     silent_evaluations     |-> 0]

\* Layers A and B: "if new_text.startswith(old_text[:min(20, len(old_text))])"
\* the new text replaces the accumulated text, else it is appended.
merge_within_layer(old_text, new_text) ==
    IF startswith(new_text, Prefix(old_text, 20)) THEN new_text
    ELSE old_text \o <<" ">> \o new_text

\* Layers A and B: the accumulated Layer B text plus the part of the Layer A
\* text that goes beyond its length.
b_plus_a(layer_b_text, layer_a_text) ==
    IF layer_a_text # <<>> /\ Len(layer_a_text) > Len(layer_b_text)
    THEN LET new_part == strip(SubSeq(layer_a_text, Len(layer_b_text) + 1, Len(layer_a_text)))
         IN  IF new_part # <<>> THEN layer_b_text \o <<" ">> \o new_part ELSE layer_b_text
    ELSE layer_b_text

\* A mutant of new_utterance: a caption id is kept once there is one.
new_utterance_keep_id(s, t, new_id) ==
    [s EXCEPT !._utterance_start = t,
              !._utterance_buffer = <<>>,
              !._active_caption_id = IF @ = NoneT THEN new_id ELSE @,
              !.utterances = @ + 1,
              !.silent_evaluations = 0]

\* _process_layer_a: "Track utterance start and create caption ID".
new_utterance(s, t, new_id) ==
    [s EXCEPT !._utterance_start = t,
              !._utterance_buffer = <<>>,
              !._active_caption_id = new_id,
              !.utterances = @ + 1,
              !.silent_evaluations = 0]

\* A mutant of layer_a_current_layer: Layer A takes the active layer back.
layer_a_current_layer_regress(current_layer) == "A"

\* _process_layer_a: "Only set current_layer to "A" if no layer is active yet".
layer_a_current_layer(current_layer) ==
    IF current_layer = "" THEN "A" ELSE current_layer

\* A mutant of layer_a_returns_early: the voice activity gate is not asked.
layer_a_returns_early_ungated(s, is_speech) ==
    \/ s._audio_buffer = <<>>
    \/ Len(concatenate(s._audio_buffer)) < _layer_a_min_samples

\* _process_layer_a returns before it touches the utterance: no audio in the
\* buffer, less than 200 ms of it, or no speech detected in its last 400 ms.
layer_a_returns_early(s, is_speech) ==
    \/ s._audio_buffer = <<>>
    \/ Len(concatenate(s._audio_buffer)) < _layer_a_min_samples
    \/ ~is_speech

\* WhisperProcessor._process_layer_a at current_time t, where the voice
\* activity gate answers is_speech, the backend answers text and uuid4()
\* answers new_id: the channel's attributes afterwards and the frames emitted.
_process_layer_a(s, channel, t, is_speech, text, new_id) ==
    LET all_audio  == concatenate(s._audio_buffer)
        audio_data == last_samples(all_audio, samples_in(channel_sample_rate(channel), 4))
    IN  IF layer_a_returns_early(s, is_speech)
        THEN [s |-> s, out |-> <<>>]
        ELSE LET s1 == IF s._utterance_start = NoneT THEN new_utterance(s, t, new_id) ELSE s
                 s2 == [s1 EXCEPT !._utterance_buffer = Append(@, audio_data)]
                 start_time == OrElse(s2._utterance_start, t)
                 new_text == strip(text)
             IN  IF new_text = <<>> THEN [s |-> s2, out |-> <<>>]
                 ELSE LET s3 == IF s2._current_layer = "A"
                                THEN [s2 EXCEPT !._layer_a_accumulated = merge_within_layer(@, new_text)]
                                ELSE [s2 EXCEPT !._layer_a_accumulated = new_text,
                                                !._current_layer = layer_a_current_layer(@)]
                          display_text == IF s3._current_layer = "B"
                                          THEN b_plus_a(s3._layer_b_accumulated, s3._layer_a_accumulated)
                                          ELSE s3._layer_a_accumulated
                      IN  [s   |-> s3,
                           out |-> <<Frame(display_text, channel, 50, TRUE, start_time, t,
                                           "A", s3._active_caption_id)>>]

\* A mutant of reset_utterance: the utterance is left as it is.
reset_utterance_keep_utterance(s) ==
    [s EXCEPT !._silence_counter = 0,
              !._layer_a_accumulated = <<>>,
              !._layer_b_accumulated = <<>>,
              !._current_layer = ""]

\* A mutant of reset_utterance: the silence counter is not reset.
reset_utterance_keep_counter(s) ==
    [s EXCEPT !._utterance_start = NoneT,
              !._utterance_buffer = <<>>,
              !._layer_a_accumulated = <<>>,
              !._layer_b_accumulated = <<>>,
              !._current_layer = ""]

\* A mutant of reset_utterance: the utterance buffer is not emptied.
reset_utterance_keep_buffer(s) ==
    [s EXCEPT !._utterance_start = NoneT,
              !._silence_counter = 0,
              !._layer_a_accumulated = <<>>,
              !._layer_b_accumulated = <<>>,
              !._current_layer = ""]

\* A mutant of reset_utterance: the layer accumulations and the active layer
\* are left as they are.
reset_utterance_keep_layers(s) ==
    [s EXCEPT !._utterance_start = NoneT,
              !._utterance_buffer = <<>>,
              !._silence_counter = 0]

\* _check_layer_c_finalize: "Reset utterance tracking" and "Clear layer
\* accumulations for next utterance".
reset_utterance(s) ==
    [s EXCEPT !._utterance_start = NoneT,
              !._utterance_buffer = <<>>,
              !._silence_counter = 0,
              !._layer_a_accumulated = <<>>,
              !._layer_b_accumulated = <<>>,
              !._current_layer = ""]

\* A mutant of layer_c_frame: the frame is emitted whatever the text is.
layer_c_frame_unconditional(s, channel, t, display_text) ==
    <<Frame(display_text, channel, 95, FALSE, OrElse(s._utterance_start, t), t, "C",
            s._active_caption_id)>>

\* _check_layer_c_finalize: "if display_text:" the final frame is emitted.
layer_c_frame(s, channel, t, display_text) ==
    IF display_text # <<>>
    THEN <<Frame(display_text, channel, 95, FALSE, OrElse(s._utterance_start, t), t, "C",
                 s._active_caption_id)>>
    ELSE <<>>

\* WhisperProcessor._check_layer_c_finalize: the channel's attributes
\* afterwards, the frames emitted and the utterances ended.
_check_layer_c_finalize(s, channel, t, text) ==
    IF s._utterance_buffer = <<>> \/ s._utterance_start = NoneT
    THEN [s |-> [s EXCEPT !._silence_counter = 0], out |-> <<>>, ended |-> <<>>]
    ELSE LET display_text == strip(text)
         IN  [s     |-> reset_utterance(s),
              out   |-> layer_c_frame(s, channel, t, display_text),
              ended |-> <<[caption_id |-> s._active_caption_id, text |-> display_text,
                           silent_evaluations |-> s.silent_evaluations]>>]

\* A mutant of layer_b_caption_id: the Layer B frame gets no caption id.
layer_b_caption_id_missing(s) == NoneT

\* _process_layer_b: the caption_id of the Layer B frame.
layer_b_caption_id(s) == s._active_caption_id

\* A mutant of silence_counter_on_speech: the counter is left as it is.
silence_counter_kept(silence_counter) == silence_counter

\* _process_layer_b: "Reset silence counter on speech".
silence_counter_on_speech(silence_counter) == 0

\* WhisperProcessor._process_layer_b.
_process_layer_b(s, channel, t, is_speech, text) ==
    IF s._audio_buffer = <<>> THEN _check_layer_c_finalize(s, channel, t, text)
    ELSE
    LET s1 == IF s._utterance_start # NoneT
              THEN [s EXCEPT !._utterance_buffer = @ \o s._audio_buffer]
              ELSE s
        all_audio  == concatenate(s1._utterance_buffer)
        audio_data == last_samples(all_audio, samples_in(channel_sample_rate(channel), _layer_b_window_duration))
    IN  IF s1._utterance_buffer = <<>>
           \/ Len(audio_data) < samples_in(channel_sample_rate(channel), 10)
        THEN [s |-> s1, out |-> <<>>, ended |-> <<>>]
        ELSE IF ~is_speech
        THEN LET s2 == [s1 EXCEPT !._silence_counter = @ + 1,
                                  !.silent_evaluations = @ + 1]
             IN  IF s2._silence_counter >= _silence_threshold_count
                 THEN _check_layer_c_finalize(s2, channel, t, text)
                 ELSE [s |-> s2, out |-> <<>>, ended |-> <<>>]
        ELSE LET s2 == [s1 EXCEPT !._silence_counter = silence_counter_on_speech(@),
                                  !.silent_evaluations = 0,
                                  !._utterance_start = IF @ = NoneT THEN t ELSE @]
                 new_text == strip(text)
             IN  IF new_text = <<>> THEN [s |-> s2, out |-> <<>>, ended |-> <<>>]
                 ELSE LET acc == IF s2._current_layer = "B"
                                 THEN merge_within_layer(s2._layer_b_accumulated, new_text)
                                 ELSE new_text
                          s3  == [s2 EXCEPT !._layer_b_accumulated = b_plus_a(acc, s2._layer_a_accumulated),
                                            !._current_layer = "B"]
                      IN  [s     |-> s3,
                           out   |-> <<Frame(s3._layer_b_accumulated, channel, 75, TRUE,
                                             OrElse(s3._utterance_start, t), t, "B",
                                             layer_b_caption_id(s3))>>,
                           ended |-> <<>>]

\* _trim_audio_buffer: max_samples = int(channel_sample_rate * 5.0)
trim_max_samples(channel) == samples_in(channel_sample_rate(channel), 50)

\* A mutant of keep_recent: the oldest samples are kept.
keep_oldest(audio, max_samples) == SubSeq(audio, 1, max_samples)

\* A mutant of keep_recent: one sample, the oldest, is dropped.
keep_all_but_one(audio, max_samples) == Tail(audio)

\* _trim_audio_buffer: trimmed = total_audio[-max_samples:]
keep_recent(audio, max_samples) ==
    SubSeq(audio, Len(audio) - Min(Len(audio), max_samples) + 1, Len(audio))

\* WhisperProcessor._trim_audio_buffer, as one step: the channel's audio buffer
\* afterwards.
_trim_audio_buffer(audio_buffer, channel) ==
    LET all_audio == concatenate(audio_buffer)
    IN  IF audio_buffer # <<>> /\ Len(all_audio) > trim_max_samples(channel)
        THEN <<keep_recent(all_audio, trim_max_samples(channel))>>
        ELSE audio_buffer

\* The state after WhisperProcessor.start(): both worker threads are at the
\* head of their loop, and time.time() is far beyond every interval.
wp_init ==
    /\ _running = TRUE
    /\ chan = [c \in Channels |-> channel_init]
    /\ now = _layer_b_step
    /\ pc = [c \in Channels |-> "layer_a"]
    /\ current_time = [c \in Channels |-> NoneT]
    /\ last_buffer_trim = [c \in Channels |-> _layer_b_step]
    /\ uuid_count = 0
    /\ emitted = [c \in Channels |-> <<>>]
    /\ ended = [c \in Channels |-> <<>>]

emitted_frames == Len(emitted["mic"]) + Len(emitted["speaker"])

\* self.events.emit("caption.frame", frame), for the frames of one firing on
\* the channel; each is logged with the number of the channel's utterance.
emit(channel, s, out) ==
    emitted' = [emitted EXCEPT ![channel] =
                   @ \o [i \in 1..Len(out) |-> [frame |-> out[i], utterance |-> s.utterances]]]

\* A mutant of lock_free: the lock is not looked at.
lock_ignored(locks, channel) == TRUE

\* "with self._buffer_locks[channel]:" can be entered.
lock_free(locks, channel) == locks[channel] = ""

\* A mutant of per_channel: the attributes are not kept per channel.
per_channel_shared(attributes, channel, s) == [c \in Channels |-> s]

\* self._audio_buffer[channel] = ..., self._utterance_start[channel] = ... and
\* the like: the attributes are dictionaries keyed by the channel, and a
\* handler writes the entries of its own channel.
per_channel(attributes, channel, s) == [attributes EXCEPT ![channel] = s]

\* WhisperProcessor._handle_audio_frame for a frame of n samples.
_handle_audio_frame(channel, n) ==
    /\ _running
    /\ lock_free(_buffer_locks, channel)
    /\ chan' = per_channel(chan, channel,
                  [chan[channel] EXCEPT
                      !._audio_buffer = Append(@, [i \in 1..n |-> chan[channel].captured + i]),
                      !.captured = @ + n])
    /\ UNCHANGED <<_running, now, pc, current_time, last_buffer_trim, uuid_count,
                   emitted, ended>>

\* _process_loop: the loop test succeeds, current_time is read and the
\* Layer A part of the iteration runs, with a backend that answers one of
\* results.
layer_a_step(channel, results) ==
    /\ pc[channel] = "layer_a"
    /\ _running
    /\ current_time' = [current_time EXCEPT ![channel] = now]
    /\ pc' = [pc EXCEPT ![channel] = "layer_b"]
    /\ IF now - chan[channel]._layer_a_last_process >= _layer_a_interval
       THEN \E is_speech \in BOOLEAN, result \in results :
              LET r == _process_layer_a(chan[channel], channel, now, is_speech,
                                        _transcribe_audio_data(result), uuid_count + 1)
              IN  /\ emitted_frames + Len(r.out) <= MaxFrames
                  /\ uuid_count + (r.s.utterances - chan[channel].utterances) <= MaxUtterances
                  /\ chan' = per_channel(chan, channel,
                                [r.s EXCEPT !._layer_a_last_process = now])
                  /\ uuid_count' = uuid_count + (r.s.utterances - chan[channel].utterances)
                  /\ emit(channel, r.s, r.out)
       ELSE UNCHANGED <<chan, uuid_count, emitted>>
    /\ UNCHANGED <<_running, now, last_buffer_trim, ended>>

loop_layer_a(channel) == layer_a_step(channel, BackendResults)

\* _process_loop: the Layer B part of the iteration (Layer C runs inside it),
\* with a backend that answers one of results.
layer_b_step(channel, results) ==
    /\ pc[channel] = "layer_b"
    /\ pc' = [pc EXCEPT ![channel] = "trim"]
    /\ IF current_time[channel] - chan[channel]._layer_b_last_process >= _layer_b_step
       THEN \E is_speech \in BOOLEAN, result \in results :
              LET r == _process_layer_b(chan[channel], channel, current_time[channel],
                                        is_speech, _transcribe_audio_data(result))
              IN  /\ emitted_frames + Len(r.out) <= MaxFrames
                  /\ chan' = per_channel(chan, channel,
                                [r.s EXCEPT !._layer_b_last_process = current_time[channel]])
                  /\ emit(channel, chan[channel], r.out)
                  /\ ended' = [ended EXCEPT ![channel] = @ \o r.ended]
       ELSE UNCHANGED <<chan, emitted, ended>>
    /\ UNCHANGED <<_running, now, current_time, last_buffer_trim, uuid_count>>

loop_layer_b(channel) == layer_b_step(channel, BackendResults)

\* _process_loop: the buffer trim of the iteration, then time.sleep(0.05).
loop_trim(channel) ==
    /\ pc[channel] = "trim"
    /\ pc' = [pc EXCEPT ![channel] = "layer_a"]
    /\ IF current_time[channel] - last_buffer_trim[channel] > trim_interval
       THEN /\ chan' = per_channel(chan, channel,
                          [chan[channel] EXCEPT
                              !._audio_buffer = _trim_audio_buffer(@, channel)])
            /\ last_buffer_trim' = [last_buffer_trim EXCEPT ![channel] = current_time[channel]]
       ELSE UNCHANGED <<chan, last_buffer_trim>>
    /\ UNCHANGED <<_running, now, current_time, uuid_count, emitted, ended>>

\* _process_loop: the loop test fails and the thread ends.
loop_exit(channel) ==
    /\ pc[channel] = "layer_a"
    /\ ~_running
    /\ pc' = [pc EXCEPT ![channel] = "stopped"]
    /\ UNCHANGED <<_running, chan, now, current_time, last_buffer_trim, uuid_count,
                   emitted, ended>>

\* WhisperProcessor.stop
stop ==
    /\ _running
    /\ _running' = FALSE
    /\ UNCHANGED <<chan, now, pc, current_time, last_buffer_trim, uuid_count,
                   emitted, ended>>

\* time.time() moves on by d tenths of a second.
Ticks == {3, 5}

tick(d) ==
    /\ now + d <= MaxClock
    /\ now' = now + d
    /\ UNCHANGED <<_running, chan, pc, current_time, last_buffer_trim, uuid_count,
                   emitted, ended>>

\* WhisperProcessor.__init__: the locks are free; no worker has copied or
\* trimmed its audio buffer yet.
buf_init ==
    /\ _buffer_locks = [c \in Channels |-> ""]
    /\ recent_audio = [c \in Channels |-> <<>>]
    /\ total_audio = [c \in Channels |-> <<>>]
    /\ trimmed = [c \in Channels |-> None]

-----------------------------------------------------------------------------
(* The caption engine: CaptionEngine, the RealtimeSTTProcessor it starts   *)
(* and the AudioCapture both use, with the capture's queue, its pump       *)
(* thread and the stream callbacks that fill the queue.                    *)

\* At most MaxCalls calls of start() and stop() are made.
MaxCalls == 3

\* At most MaxProduced frames come from the microphone stream, and one from
\* the speaker stream.
MaxProduced == 9

StreamFrames == [mic |-> MaxProduced, speaker |-> 1]

\* AudioCapture.__init__: queue.Queue(maxsize=8)
maxsize == 8

\* CaptionSettings.engine
settings_engine == "whisper"

\* The devices a start() finds: whether the microphone stream opens, and
\* whether any of the speaker loopback attempts succeeds.
Devices == [mic : BOOLEAN, speaker : BOOLEAN]

\* CaptionEngine.__init__
engine_new ==
    [_running |-> FALSE, _using_stt |-> FALSE, _stt_processor |-> FALSE,
     _placeholder_thread |-> FALSE, _speaker_monitor_thread |-> FALSE,
     _speaker_monitor_stop |-> FALSE]

\* RealtimeSTTProcessor.__init__; registered tells whether the instance's
\* _handle_audio_frame is among the capture's callbacks, _audio_buffer counts
\* the chunks per channel, and threads tells whether _mic_thread and
\* _speaker_thread were started.
stt_new ==
    [_running |-> FALSE, _recorders |-> "none", registered |-> FALSE,
     threads |-> FALSE, _audio_buffer |-> [c \in Channels |-> 0]]

\* AudioCapture.__init__; _speaker_stream stands for _speaker_stream and
\* _wasapi_capture, _callbacks and _level_callbacks for their lengths.
capture_new ==
    [_running |-> FALSE, _mic_stream |-> FALSE, _speaker_stream |-> FALSE,
     _callbacks |-> 0, _level_callbacks |-> 0]

\* The objects the calls below work on, as one record.
World ==
    [engine |-> engine, stt |-> stt, capture |-> capture, pump |-> pump,
     published |-> published]

\* AudioCapture.clear_level_callbacks
clear_level_callbacks(w) == [w EXCEPT !.capture._level_callbacks = 0]

\* AudioCapture.register_level_callback
register_level_callback(w) == [w EXCEPT !.capture._level_callbacks = @ + 1]

\* AudioCapture.register
register(w) == [w EXCEPT !.capture._callbacks = @ + 1]

\* AudioCapture._start_speaker_stream: every failure is caught, and the
\* speaker stream is then left closed.
_start_speaker_stream(w, devices) ==
    IF w.capture._speaker_stream
    THEN w
    ELSE [w EXCEPT !.capture._speaker_stream = devices.speaker]

\* AudioCapture.start: the world afterwards, and whether the call raised.
\* sd.InputStream(...) and _mic_stream.start() raise when the microphone
\* cannot be opened, and nothing catches it here.
AudioCapture_start(w, devices) ==
    IF w.capture._running
    THEN [w |-> w, raised |-> FALSE]
    ELSE LET running == [w EXCEPT !.capture._running = TRUE]
         IN  IF ~devices.mic
             THEN [w |-> running, raised |-> TRUE]
             ELSE LET mic == [running EXCEPT !.capture._mic_stream = TRUE]
                      speaker == _start_speaker_stream(mic, devices)
                  IN  [w |-> [speaker EXCEPT !.pump.loop = @ + 1],
                       raised |-> FALSE]

\* AudioCapture.stop
AudioCapture_stop(w) ==
    clear_level_callbacks(
        [w EXCEPT !.capture._running = FALSE,
                  !.capture._mic_stream = FALSE,
                  !.capture._speaker_stream = FALSE])

\* RealtimeSTTProcessor.start: the world afterwards, the value returned and
\* whether the call raised.
RealtimeSTTProcessor_start(w, recorders_ok, devices) ==
    IF w.stt._running
    THEN [w |-> w, success |-> TRUE, raised |-> FALSE]
    ELSE IF ~recorders_ok
    THEN [w |-> w, success |-> FALSE, raised |-> FALSE]
    ELSE LET created == [w EXCEPT !.stt._recorders = "created",
                                  !.stt._running = TRUE,
                                  !.stt.registered = TRUE]
             started == AudioCapture_start(register(created), devices)
         IN  IF started.raised
             THEN [w |-> started.w, success |-> FALSE, raised |-> TRUE]
             ELSE [w |-> [started.w EXCEPT !.stt.threads = TRUE],
                   success |-> TRUE, raised |-> FALSE]

\* RealtimeSTTProcessor.stop; the join of the two threads changes no
\* attribute.
RealtimeSTTProcessor_stop(w) ==
    IF ~w.stt._running
    THEN w
    ELSE AudioCapture_stop(
             [w EXCEPT !.stt._running = FALSE,
                       !.stt._recorders = IF @ = "none" THEN @ ELSE "stopped"])

\* CaptionEngine._start_stt_processor: a new RealtimeSTTProcessor is made and
\* started; an exception of its start() is caught and counts as False.
_start_stt_processor(w, recorders_ok, devices) ==
    LET made == [w EXCEPT !.engine._stt_processor = TRUE, !.stt = stt_new]
        started == RealtimeSTTProcessor_start(made, recorders_ok, devices)
    IN  [w |-> started.w, success |-> started.success /\ ~started.raised]

\* CaptionEngine._publish_device_info
_publish_device_info(w) == [w EXCEPT !.published = @ + 1]

\* CaptionEngine._start_speaker_monitor
_start_speaker_monitor(w) ==
    IF w.engine._speaker_monitor_thread
    THEN w
    ELSE [w EXCEPT !.engine._speaker_monitor_stop = TRUE,
                   !.engine._speaker_monitor_thread = TRUE]

\* CaptionEngine._stop_speaker_monitor
_stop_speaker_monitor(w) ==
    [w EXCEPT !.engine._speaker_monitor_stop = FALSE,
              !.engine._speaker_monitor_thread = FALSE]

\* CaptionEngine.start
CaptionEngine_start(w, recorders_ok, devices) ==
    IF w.engine._running
    THEN w
    ELSE LET levels == register_level_callback(
                           clear_level_callbacks([w EXCEPT !.engine._running = TRUE]))
             mode == IF settings_engine = "whisper"
                     THEN LET r == _start_stt_processor(levels, recorders_ok, devices)
                          IN  [r.w EXCEPT !.engine._using_stt = r.success]
                     ELSE levels
         IN  _start_speaker_monitor(_publish_device_info(mode))

\* A mutant of CaptionEngine.stop: the test of the running flag is missing.
CaptionEngine_stop_unguarded(w) ==
    LET flagged == [w EXCEPT !.engine._running = FALSE]
        stopped == IF w.engine._using_stt /\ w.engine._stt_processor
                   THEN RealtimeSTTProcessor_stop(flagged)
                   ELSE flagged
        cleared == _stop_speaker_monitor(clear_level_callbacks(stopped))
    IN  _publish_device_info(
            [cleared EXCEPT !.engine._using_stt = FALSE,
                            !.engine._stt_processor = FALSE,
                            !.engine._placeholder_thread = FALSE])

\* CaptionEngine.stop
CaptionEngine_stop(w) ==
    IF ~w.engine._running
    THEN w
    ELSE LET flagged == [w EXCEPT !.engine._running = FALSE]
             stopped == IF w.engine._using_stt /\ w.engine._stt_processor
                        THEN RealtimeSTTProcessor_stop(flagged)
                        ELSE flagged
             cleared == _stop_speaker_monitor(clear_level_callbacks(stopped))
         IN  _publish_device_info(
                 [cleared EXCEPT !.engine._using_stt = FALSE,
                                 !.engine._stt_processor = FALSE,
                                 !.engine._placeholder_thread = FALSE])

\* WhisperProcessor.stop, as a function of the running flag.
WhisperProcessor_stop(running) == IF ~running THEN running ELSE FALSE

\* The objects are left as the record w says.
becomes(w) ==
    /\ engine' = w.engine
    /\ stt' = w.stt
    /\ capture' = w.capture
    /\ pump' = w.pump
    /\ published' = w.published

\* One more call of the interface is made, on an object whose running flag
\* is running, and with the devices in the state given.
called(op, running, devices) ==
    /\ api.n < MaxCalls
    /\ api' = [n |-> api.n + 1, op |-> op, running |-> running,
               previous |-> api.op, devices |-> devices]

\* A call of CaptionEngine.start()
engine_start(recorders_ok, devices) ==
    /\ called("CaptionEngine.start", engine._running, devices)
    /\ becomes(CaptionEngine_start(World, recorders_ok, devices))
    /\ UNCHANGED <<_queue, produced>>

\* A call of CaptionEngine.stop()
engine_stop ==
    /\ called("CaptionEngine.stop", engine._running, api.devices)
    /\ becomes(CaptionEngine_stop(World))
    /\ UNCHANGED <<_queue, produced>>

\* A call of RealtimeSTTProcessor.stop() on the engine's processor.
processor_stop ==
    /\ called("RealtimeSTTProcessor.stop", stt._running, api.devices)
    /\ becomes(RealtimeSTTProcessor_stop(World))
    /\ UNCHANGED <<_queue, produced>>

\* A call of WhisperProcessor.stop()
whisper_stop ==
    /\ called("WhisperProcessor.stop", _running, api.devices)
    /\ _running' = WhisperProcessor_stop(_running)
    /\ UNCHANGED <<engine, stt, capture, pump, published, _queue, produced>>

\* queue.put_nowait under suppress(queue.Full): a full queue is left as it
\* is.
put_nowait(q, frame) == IF Len(q) < maxsize THEN Append(q, frame) ELSE q

\* AudioCapture._handle_mic, _handle_speaker and _handle_wasapi_frame: the
\* stream of the channel calls back with its next frame.
_handle_stream(channel) ==
    /\ IF channel = "mic" THEN capture._mic_stream ELSE capture._speaker_stream
    /\ produced[channel] < StreamFrames[channel]
    /\ produced' = [produced EXCEPT ![channel] = @ + 1]
    /\ _queue' = IF ~capture._running
                 THEN _queue
                 ELSE put_nowait(_queue, [channel |-> channel, n |-> produced[channel] + 1])
    /\ UNCHANGED <<engine, stt, capture, pump, published, api>>

\* AudioCapture._pump_queue: the loop test succeeds and the thread goes to
\* wait on the queue.
pump_test ==
    /\ pump.loop > 0
    /\ capture._running
    /\ pump' = [loop |-> pump.loop - 1, get |-> pump.get + 1]
    /\ UNCHANGED <<engine, stt, capture, published, _queue, produced, api>>

\* AudioCapture._pump_queue: the loop test fails and the thread ends.
pump_exit ==
    /\ pump.loop > 0
    /\ ~capture._running
    /\ pump' = [pump EXCEPT !.loop = @ - 1]
    /\ UNCHANGED <<engine, stt, capture, published, _queue, produced, api>>

\* AudioCapture._pump_queue: a frame is taken from the queue and handed to
\* every callback; RealtimeSTTProcessor._handle_audio_frame appends it to the
\* channel's buffer.
pump_get ==
    /\ pump.get > 0
    /\ _queue # <<>>
    /\ _queue' = Tail(_queue)
    /\ pump' = [loop |-> pump.loop + 1, get |-> pump.get - 1]
    /\ stt' = IF stt.registered
              THEN [stt EXCEPT !._audio_buffer[Head(_queue).channel] = @ + 1]
              ELSE stt
    /\ UNCHANGED <<engine, capture, published, produced, api>>

\* AudioCapture._pump_queue: queue.Empty after the timeout.
pump_timeout ==
    /\ pump.get > 0
    /\ _queue = <<>>
    /\ pump' = [loop |-> pump.loop + 1, get |-> pump.get - 1]
    /\ UNCHANGED <<engine, stt, capture, published, _queue, produced, api>>

\* RealtimeSTTProcessor._process_loop: the channel's chunks are copied, the
\* buffer is cleared and the chunks are fed to the recorder.
_process_loop(channel) ==
    /\ stt.threads
    /\ stt._running
    /\ stt._audio_buffer[channel] > 0
    /\ stt' = [stt EXCEPT !._audio_buffer[channel] = 0]
    /\ UNCHANGED <<engine, capture, pump, published, _queue, produced, api>>

\* CaptionEngine._speaker_monitor_loop ends: the endpoint is missing or
\* cannot be read, or the stop event was set.
_speaker_monitor_loop ==
    /\ engine._speaker_monitor_thread
    /\ engine' = [engine EXCEPT !._speaker_monitor_thread = FALSE]
    /\ UNCHANGED <<stt, capture, pump, published, _queue, produced, api>>

\* The state after CaptionEngine.__init__, with its AudioCapture; no call of
\* the interface was made yet.
eng_init ==
    /\ engine = engine_new
    /\ stt = stt_new
    /\ capture = capture_new
    /\ pump = [loop |-> 0, get |-> 0]
    /\ _queue = <<>>
    /\ published = 0
    /\ produced = [c \in Channels |-> 0]
    /\ api = [n |-> 0, op |-> "", running |-> FALSE, previous |-> "",
              devices |-> [mic |-> FALSE, speaker |-> FALSE]]

-----------------------------------------------------------------------------
(* The event bus: EventBus with its subscribers per topic, and the         *)
(* handlers as far as an emission can tell them apart: a handler returns   *)
(* or raises.                                                              *)

Topics == {"caption.frame", "audio.level"}

Handlers == {"h1", "h2", "h3"}

Payloads == {42, 43}

\* A mutant of handlers_of: the handlers of every topic are taken.
handlers_of_every_topic(subscribers, topic) ==
    subscribers["caption.frame"] \o subscribers["audio.level"]

\* EventBus.emit: handlers = list(self._subscribers.get(topic, ()))
handlers_of(subscribers, topic) == subscribers[topic]

\* "handler in self._subscribers[topic]"
subscribed(subscribers, topic, handler) ==
    \E i \in 1..Len(subscribers[topic]) : subscribers[topic][i] = handler

\* list.remove(handler): the first occurrence is taken out.
remove(list, handler) ==
    LET first == CHOOSE i \in 1..Len(list) :
                    /\ list[i] = handler
                    /\ \A j \in 1..(i - 1) : list[j] # handler
    IN  SubSeq(list, 1, first - 1) \o SubSeq(list, first + 1, Len(list))

\* "for handler in handlers: handler(payload)", with the handlers of raising
\* raising an exception that nothing catches: the calls made, in order.
RECURSIVE invoke(_, _, _)
invoke(handlers, payload, raising) ==
    IF handlers = <<>>
    THEN <<>>
    ELSE <<[handler |-> Head(handlers), payload |-> payload]>>
         \o (IF Head(handlers) \in raising
             THEN <<>>
             ELSE invoke(Tail(handlers), payload, raising))

\* EventBus.subscribe
subscribe(topic, handler) ==
    /\ _subscribers' = IF ~subscribed(_subscribers, topic, handler)
                       THEN [_subscribers EXCEPT ![topic] = Append(@, handler)]
                       ELSE _subscribers
    /\ received' = <<>>
    /\ bus' = [op |-> "subscribe", topic |-> topic, payload |-> 0,
               before |-> _subscribers, raising |-> {}]

\* EventBus.unsubscribe
unsubscribe(topic, handler) ==
    /\ _subscribers' = IF subscribed(_subscribers, topic, handler)
                       THEN [_subscribers EXCEPT ![topic] = remove(@, handler)]
                       ELSE _subscribers
    /\ received' = <<>>
    /\ bus' = [op |-> "unsubscribe", topic |-> topic, payload |-> 0,
               before |-> _subscribers, raising |-> {}]

\* EventBus.emit, with the handlers of raising raising when they are called.
bus_emit(topic, payload, raising) ==
    /\ received' = invoke(handlers_of(_subscribers, topic), payload, raising)
    /\ bus' = [op |-> "emit", topic |-> topic, payload |-> payload,
               before |-> _subscribers, raising |-> raising]
    /\ UNCHANGED _subscribers

\* EventBus.__init__
bus_init ==
    /\ _subscribers = [t \in Topics |-> <<>>]
    /\ received = <<>>
    /\ bus = [op |-> "__init__", topic |-> "", payload |-> 0,
              before |-> [t \in Topics |-> <<>>], raising |-> {}]

-----------------------------------------------------------------------------
(* WhisperProcessor.start: the files it looks for and the paths it keeps.  *)

\* The files start() looks for: whisper-cli.exe (at any of the places it
\* tries), the model of settings.whisper_model_path and the fast model of
\* settings.whisper_model_path_fast.
Files == {"whisper-cli.exe", "medium", "tiny"}

\* start(): the model Layer A uses; the model of Layers B and C stands in
\* when the fast model's file is missing.
fast_model(existing) == IF "tiny" \notin existing THEN "medium" ELSE "tiny"

\* WhisperProcessor.start, up to the threads: the value returned, the paths
\* kept and the running flag, with the files of existing there.
WhisperProcessor_start(running, paths, existing) ==
    IF running
    THEN [ret |-> TRUE, paths |-> paths, _running |-> running]
    ELSE IF "whisper-cli.exe" \notin existing
    THEN [ret |-> FALSE, paths |-> paths, _running |-> running]
    ELSE IF "medium" \notin existing
    THEN [ret |-> FALSE, paths |-> paths, _running |-> running]
    ELSE [ret |-> TRUE,
          paths |-> [_whisper_exe |-> "whisper-cli.exe", _model_path |-> "medium",
                     _model_path_fast |-> fast_model(existing)],
          _running |-> TRUE]

\* A call of WhisperProcessor.start(); when it goes through, the two worker
\* threads are started at the head of _process_loop (a worker of an earlier
\* start that has not ended yet is not followed any further).
whisper_start ==
    LET r == WhisperProcessor_start(_running, whisper, files)
    IN  /\ whisper' = r.paths
        /\ _running' = r._running
        /\ pc' = IF ~_running /\ r.ret THEN [c \in Channels |-> "layer_a"] ELSE pc
        /\ startup' = [op |-> "start", ret |-> r.ret, running |-> _running,
                       files |-> files]
        /\ UNCHANGED <<files, chan, now, current_time, last_buffer_trim,
                       uuid_count, emitted, ended>>

\* A call of WhisperProcessor.stop() between two starts.
whisper_restart_stop ==
    /\ stop
    /\ startup' = [startup EXCEPT !.op = "stop"]
    /\ UNCHANGED <<files, whisper>>

\* A file is put in place or taken away.
file_change(file) ==
    /\ files' = IF file \in files THEN files \ {file} ELSE files \cup {file}
    /\ UNCHANGED <<wpVars, whisper, startup>>

\* The state after a WhisperProcessor.start() that found every file.
start_init ==
    /\ files = Files
    /\ whisper = [_whisper_exe |-> "whisper-cli.exe", _model_path |-> "medium",
                  _model_path_fast |-> "tiny"]
    /\ startup = [op |-> "start", ret |-> TRUE, running |-> FALSE, files |-> Files]

-----------------------------------------------------------------------------
(* The voice activity gate: WhisperProcessor._detect_speech and the        *)
(* VADDetector of each channel (src/src/mate/audio/vad_OLD.py).  An audio   *)
(* frame of 30 ms is what webrtcvad answers for it, an audio window the    *)
(* sequence of its whole frames.                                           *)

\* WhisperProcessor.__init__: VADDetector(frame_duration_ms=30, hangover_ms=300)
frame_duration_ms == 30

hangover_ms == 300

\* VADDetector.__init__: int(hangover_ms / frame_duration_ms)
hangover_frames == hangover_ms \div frame_duration_ms

\* The frames fed to one detector one by one, and the frames fed to the
\* detector of each channel in windows.
MaxVadFrames == 12

MaxWindows == 3

\* VADDetector.__init__: the hangover deque and the statistics.
VADDetector == [speech_frames |-> <<>>, total_frames |-> 0, speech_count |-> 0]

\* A mutant of deque_append: the deque has no maximal length.
deque_append_unbounded(d, x, maxlen) == Append(d, x)

\* deque(maxlen=maxlen).append(x)
deque_append(d, x, maxlen) ==
    IF maxlen = 0 THEN <<>>
    ELSE IF Len(d) >= maxlen THEN Append(Tail(d), x)
    ELSE Append(d, x)

\* any()
any(s) == \E i \in 1..Len(s) : s[i]

\* sum() of booleans
sum(s) == Cardinality({i \in 1..Len(s) : s[i]})

\* VADDetector.process_frame, where self.vad.is_speech answers is_speech for
\* the frame (False also when it raises): the detector afterwards and the
\* VADResult, its confidence as numerator and denominator (the timestamp is
\* passed through and left out).
process_frame(self, is_speech) ==
    LET speech_frames == deque_append(self.speech_frames, is_speech, hangover_frames)
    IN  [self   |-> [speech_frames |-> speech_frames,
                     total_frames  |-> self.total_frames + 1,
                     speech_count  |-> self.speech_count + (IF is_speech THEN 1 ELSE 0)],
         result |-> [is_speech  |-> any(speech_frames),
                     confidence |-> IF Len(speech_frames) > 0
                                    THEN <<sum(speech_frames), Len(speech_frames)>>
                                    ELSE <<IF is_speech THEN 1 ELSE 0, 1>>]]

\* VADDetector.process_buffer: process_frame on every whole frame in turn.
RECURSIVE process_buffer(_, _)
process_buffer(self, audio_buffer) ==
    IF audio_buffer = <<>> THEN [self |-> self, results |-> <<>>]
    ELSE LET first == process_frame(self, Head(audio_buffer))
             rest  == process_buffer(first.self, Tail(audio_buffer))
         IN  [self |-> rest.self, results |-> <<first.result>> \o rest.results]

\* WhisperProcessor._detect_speech with VAD enabled: the channel's detector
\* afterwards and the value returned ("Require at least 30% of frames to be
\* speech": speech_ratio > 0.3).
_detect_speech(self, audio_data) ==
    LET r == process_buffer(self, audio_data)
        speech_frames == Cardinality({i \in 1..Len(r.results) : r.results[i].is_speech})
        total_frames  == Len(r.results)
    IN  [self |-> r.self,
         ret  |-> IF total_frames = 0 THEN FALSE ELSE 10 * speech_frames > 3 * total_frames]

\* The number of whole 30 ms frames in Layer A's window of 400 ms at 16 kHz.
layer_a_frames == ((16000 * 4) \div 10) \div ((16000 * frame_duration_ms) \div 1000)

\* The audio windows the gate is asked about: nothing, Layer A's window with
\* no frame of speech, with every frame speech, and with speech at its start.
all_frames(n, is_speech) == [i \in 1..n |-> is_speech]

Windows ==
    {<<>>,
     all_frames(layer_a_frames, FALSE),
     all_frames(layer_a_frames, TRUE),
     all_frames(3, TRUE) \o all_frames(layer_a_frames - 3, FALSE)}

\* History: the number of frames since the last frame of speech, counted up
\* to hangover_frames, NoneT before the first frame of speech.
since_speech_after(since, is_speech) ==
    IF is_speech THEN 0
    ELSE IF since = NoneT THEN NoneT
    ELSE Min(since + 1, hangover_frames)

\* VADDetector.process_frame on the detector of a channel.
vad_process_frame(channel, is_speech) ==
    LET r == process_frame(_vad[channel], is_speech)
    IN  /\ _vad[channel].total_frames < MaxVadFrames
        /\ _vad' = [_vad EXCEPT ![channel] = r.self]
        /\ since_speech' = [since_speech EXCEPT ![channel] = since_speech_after(@, is_speech)]
        /\ vad_call' = [op |-> "process_frame", channel |-> channel,
                        audio |-> <<is_speech>>, ret |-> r.result.is_speech,
                        n |-> vad_call.n]
        /\ UNCHANGED seen

\* WhisperProcessor._detect_speech(audio_data, channel, sample_rate)
detect_speech(channel, audio_data) ==
    LET r == _detect_speech(_vad[channel], audio_data)
    IN  /\ vad_call.n < MaxWindows
        /\ _vad' = [_vad EXCEPT ![channel] = r.self]
        /\ seen' = [seen EXCEPT ![channel][audio_data] = @ \cup {r.ret}]
        /\ vad_call' = [op |-> "_detect_speech", channel |-> channel,
                        audio |-> audio_data, ret |-> r.ret, n |-> vad_call.n + 1]
        /\ UNCHANGED since_speech

\* WhisperProcessor.__init__: a new detector for each channel.
vad_init ==
    /\ _vad = [c \in Channels |-> VADDetector]
    /\ since_speech = [c \in Channels |-> NoneT]
    /\ seen = [c \in Channels |-> [w \in Windows |-> {}]]
    /\ vad_call = [op |-> "", channel |-> "mic", audio |-> <<>>, ret |-> FALSE, n |-> 0]

-----------------------------------------------------------------------------
(* Restarts of the WhisperProcessor: the worker threads of each channel,   *)
(* the frame handlers registered at the capture, and the frames the        *)
(* capture's pump thread hands to them.  An iteration of _process_loop is  *)
(* one step here.                                                          *)

\* The start() and stop() calls made, and the frames the capture delivers.
MaxRestartCalls == 2

MaxDelivered == 1

\* The runs of whisper-cli while the processor is restarted: each prints a
\* text or nothing and exits with 0.
RestartResults == {[raised |-> "", returncode |-> 0, stdout |-> t] : t \in BackendTexts}

\* threading.Thread(target=self._process_loop, ...).start(): the thread
\* has run "last_buffer_trim = time.time()" at time t and stands at "while
\* self._running"; it has passed that test in no run yet, and has read no
\* current_time.
thread_new(t) == [at |-> "while", run |-> 0, current_time |-> 0, last_buffer_trim |-> t]

\* list.remove of the i-th element
without(list, i) == SubSeq(list, 1, i - 1) \o SubSeq(list, i + 1, Len(list))

\* AudioCapture.register(self._handle_audio_frame): self._callbacks.append,
\* as the number of times the handler is in the list.
registered_after(callbacks) == callbacks + 1

\* _process_loop: "while self._running" of the channel's i-th worker thread:
\* it enters an iteration and reads current_time, or the thread ends.
worker_test(channel, i) ==
    /\ workers[channel][i].at = "while"
    /\ workers' = [workers EXCEPT ![channel] =
                      IF _running
                      THEN [@ EXCEPT ![i].at = "layer_a", ![i].run = restart.runs,
                                     ![i].current_time = now]
                      ELSE without(@, i)]
    /\ UNCHANGED <<wpVars, startVars, _callbacks, restart>>

\* _process_loop: the Layer A part of an iteration of the channel's i-th
\* worker thread.
worker_layer_a(channel, i) ==
    /\ workers[channel][i].at = "layer_a"
    /\ workers' = [workers EXCEPT ![channel][i].at = "layer_b"]
    /\ IF workers[channel][i].current_time - chan[channel]._layer_a_last_process
             >= _layer_a_interval
       THEN \E is_speech \in BOOLEAN, result \in RestartResults :
              LET r == _process_layer_a(chan[channel], channel,
                                        workers[channel][i].current_time, is_speech,
                                        _transcribe_audio_data(result), uuid_count + 1)
              IN  /\ emitted_frames + Len(r.out) <= MaxFrames
                  /\ uuid_count + (r.s.utterances - chan[channel].utterances) <= MaxUtterances
                  /\ chan' = per_channel(chan, channel,
                                [r.s EXCEPT !._layer_a_last_process =
                                                workers[channel][i].current_time])
                  /\ uuid_count' = uuid_count + (r.s.utterances - chan[channel].utterances)
                  /\ emit(channel, r.s, r.out)
       ELSE UNCHANGED <<chan, uuid_count, emitted>>
    /\ UNCHANGED <<_running, now, pc, current_time, last_buffer_trim, ended, startVars,
                   _callbacks, restart>>

\* _process_loop: the Layer B part of the iteration (Layer C runs inside it).
worker_layer_b(channel, i) ==
    /\ workers[channel][i].at = "layer_b"
    /\ workers' = [workers EXCEPT ![channel][i].at = "trim"]
    /\ IF workers[channel][i].current_time - chan[channel]._layer_b_last_process
             >= _layer_b_step
       THEN \E is_speech \in BOOLEAN, result \in RestartResults :
              LET r == _process_layer_b(chan[channel], channel,
                                        workers[channel][i].current_time,
                                        is_speech, _transcribe_audio_data(result))
              IN  /\ emitted_frames + Len(r.out) <= MaxFrames
                  /\ chan' = per_channel(chan, channel,
                                [r.s EXCEPT !._layer_b_last_process =
                                                workers[channel][i].current_time])
                  /\ emit(channel, chan[channel], r.out)
                  /\ ended' = [ended EXCEPT ![channel] = @ \o r.ended]
       ELSE UNCHANGED <<chan, emitted, ended>>
    /\ UNCHANGED <<_running, now, pc, current_time, last_buffer_trim, uuid_count, startVars,
                   _callbacks, restart>>

\* _process_loop: the buffer trim of the iteration, then time.sleep(0.05).
worker_trim(channel, i) ==
    /\ workers[channel][i].at = "trim"
    /\ IF workers[channel][i].current_time - workers[channel][i].last_buffer_trim
             > trim_interval
       THEN /\ chan' = per_channel(chan, channel,
                          [chan[channel] EXCEPT
                              !._audio_buffer = _trim_audio_buffer(@, channel)])
            /\ workers' = [workers EXCEPT
                              ![channel][i].at = "while",
                              ![channel][i].last_buffer_trim =
                                  workers[channel][i].current_time]
       ELSE /\ workers' = [workers EXCEPT ![channel][i].at = "while"]
            /\ UNCHANGED chan
    /\ UNCHANGED <<_running, now, pc, current_time, last_buffer_trim, uuid_count, emitted,
                   ended, startVars, _callbacks, restart>>

\* A call of WhisperProcessor.start(): when it goes through, the frame
\* handler is registered at the capture, capture.start() finds the capture
\* running, and a worker thread is started for each channel.
restart_start ==
    LET r == WhisperProcessor_start(_running, whisper, files)
        through == ~_running /\ r.ret
    IN  /\ restart.calls < MaxRestartCalls
        /\ whisper' = r.paths
        /\ _running' = r._running
        /\ _callbacks' = IF through THEN registered_after(_callbacks) ELSE _callbacks
        /\ workers' = IF through THEN [c \in Channels |-> Append(workers[c], thread_new(now))]
                      ELSE workers
        /\ restart' = [restart EXCEPT !.calls = @ + 1,
                                      !.runs = IF through THEN @ + 1 ELSE @]
        /\ startup' = [op |-> "start", ret |-> r.ret, running |-> _running, files |-> files]
        /\ UNCHANGED <<files, chan, now, pc, current_time, last_buffer_trim,
                       uuid_count, emitted, ended>>

\* A call of WhisperProcessor.stop(): the running flag is cleared; no thread
\* is joined, no handler is taken back and the capture is left running.
restart_stop ==
    /\ restart.calls < MaxRestartCalls
    /\ _running' = FALSE
    /\ restart' = [restart EXCEPT !.calls = @ + 1]
    /\ startup' = [startup EXCEPT !.op = "stop"]
    /\ UNCHANGED <<files, whisper, chan, now, pc, current_time, last_buffer_trim,
                   uuid_count, emitted, ended, workers, _callbacks>>

\* WhisperProcessor._handle_audio_frame, called `calls` times in a row with
\* the same frame: the channel's audio buffer afterwards.
RECURSIVE handle_audio_frame(_, _, _, _)
handle_audio_frame(running, audio_buffer, samples, calls) ==
    IF calls = 0 THEN audio_buffer
    ELSE handle_audio_frame(running,
                            IF running THEN Append(audio_buffer, samples) ELSE audio_buffer,
                            samples, calls - 1)

\* AudioCapture._pump_queue: a frame of n samples of the channel is taken from
\* the queue and "for callback in list(self._callbacks): callback(frame)".
deliver(channel, n) ==
    LET samples == [i \in 1..n |-> chan[channel].captured + i]
        buffer  == handle_audio_frame(_running, chan[channel]._audio_buffer, samples, _callbacks)
    IN  /\ restart.delivered < MaxDelivered
        /\ chan' = per_channel(chan, channel,
                      [chan[channel] EXCEPT !._audio_buffer = buffer, !.captured = @ + n])
        /\ restart' = [restart EXCEPT
                          !.delivered = @ + 1,
                          !.delivery = [channel |-> channel, running |-> _running,
                                        appended |-> Len(buffer) - Len(chan[channel]._audio_buffer)]]
        /\ UNCHANGED <<_running, now, pc, current_time, last_buffer_trim, uuid_count,
                       emitted, ended, startVars, workers, _callbacks>>

\* The state after WhisperProcessor.start(): the frame handler is registered
\* once, and the worker thread of each channel stands at its loop test.
restart_init ==
    /\ workers = [c \in Channels |-> <<thread_new(last_buffer_trim[c])>>]
    /\ _callbacks = 1
    /\ restart = [calls |-> 0, runs |-> 1, delivered |-> 0, delivery |-> None]

-----------------------------------------------------------------------------
(* The initial state and the scheduler's specification.                    *)

\* The state after CaptionManager(), WhisperProcessor.start(),
\* CaptionEngine() and EventBus().
Init ==
    cm_init /\ wp_init /\ buf_init /\ eng_init /\ bus_init /\ start_init /\ vad_init
    /\ restart_init

\* The frame sizes the capture delivers.
FrameSizes == {3}

NextLayers ==
    \/ \E channel \in Channels, n \in FrameSizes :
          /\ chan[channel].captured + n <= MaxCaptured[channel]
          /\ _handle_audio_frame(channel, n)
          /\ UNCHANGED notWp
    \/ \E channel \in Channels : loop_layer_a(channel) /\ UNCHANGED notWp
    \/ \E channel \in Channels : loop_layer_b(channel) /\ UNCHANGED notWp
    \/ \E channel \in Channels : loop_trim(channel) /\ UNCHANGED notWp
    \/ \E channel \in Channels : loop_exit(channel) /\ UNCHANGED notWp
    \/ stop /\ UNCHANGED notWp
    \/ \E d \in Ticks : tick(d) /\ UNCHANGED notWp

SpecLayers == Init /\ [][NextLayers]_vars

\* The microphone's worker with a backend that hears two different words:
\* every call of whisper-cli succeeds and prints nothing, the one word or the
\* other.  The speaker's worker, which has no audio, takes no step.
yo == <<"y", "o">>

MergeTexts == {<<>>, hi, yo}

MergeChannels == {"mic"}

MergeResults == {[raised |-> "", returncode |-> 0, stdout |-> t] : t \in MergeTexts}

NextMerge ==
    \/ \E channel \in MergeChannels, n \in FrameSizes :
          /\ chan[channel].captured + n <= MaxCaptured[channel]
          /\ _handle_audio_frame(channel, n)
          /\ UNCHANGED notWp
    \/ \E channel \in MergeChannels : layer_a_step(channel, MergeResults) /\ UNCHANGED notWp
    \/ \E channel \in MergeChannels : layer_b_step(channel, MergeResults) /\ UNCHANGED notWp
    \/ \E channel \in MergeChannels : loop_trim(channel) /\ UNCHANGED notWp
    \/ \E d \in Ticks : tick(d) /\ UNCHANGED notWp

SpecMerge == Init /\ [][NextMerge]_vars

-----------------------------------------------------------------------------
(* The audio buffer at the grain of its lock: the capture thread's append, *)
(* the worker's copies in Layer A and Layer B, and _trim_audio_buffer in   *)
(* two steps, entering the lock and leaving it.                            *)

\* At most MaxBuffered samples are captured on the microphone channel, and
\* one frame on the speaker channel.
MaxBuffered == 39

\* The frame sizes the capture delivers here: about a quarter and a half of
\* what a trim keeps.
BufferFrameSizes == {6, 13}

BufferCaptured == [mic |-> MaxBuffered, speaker |-> 13]

\* _process_layer_a: "recent_audio = self._audio_buffer[channel].copy()",
\* under the lock.
copy_layer_a(channel) ==
    /\ pc[channel] = "layer_a"
    /\ _running
    /\ lock_free(_buffer_locks, channel)
    /\ recent_audio' = [recent_audio EXCEPT ![channel] = chan[channel]._audio_buffer]
    /\ pc' = [pc EXCEPT ![channel] = "layer_b"]
    /\ UNCHANGED <<_running, chan, now, current_time, last_buffer_trim, uuid_count,
                   emitted, ended, _buffer_locks, total_audio, trimmed>>

\* _process_layer_b: "new_chunks = self._audio_buffer[channel].copy()", under
\* the lock.
copy_layer_b(channel) ==
    /\ pc[channel] = "layer_b"
    /\ lock_free(_buffer_locks, channel)
    /\ recent_audio' = [recent_audio EXCEPT ![channel] = chan[channel]._audio_buffer]
    /\ pc' = [pc EXCEPT ![channel] = "trim"]
    /\ UNCHANGED <<_running, chan, now, current_time, last_buffer_trim, uuid_count,
                   emitted, ended, _buffer_locks, total_audio, trimmed>>

\* _trim_audio_buffer enters the lock and concatenates the buffer.
trim_enter(channel) ==
    /\ pc[channel] = "trim"
    /\ lock_free(_buffer_locks, channel)
    /\ _buffer_locks' = [_buffer_locks EXCEPT ![channel] = "worker"]
    /\ total_audio' = [total_audio EXCEPT ![channel] = concatenate(chan[channel]._audio_buffer)]
    /\ pc' = [pc EXCEPT ![channel] = "trimming"]
    /\ UNCHANGED <<_running, chan, now, current_time, last_buffer_trim, uuid_count,
                   emitted, ended, recent_audio, trimmed>>

\* _trim_audio_buffer replaces the buffer by [trimmed] when total_audio is
\* longer than max_samples, and leaves the lock.
trim_leave(channel) ==
    /\ pc[channel] = "trimming"
    /\ LET audio_buffer == IF Len(total_audio[channel]) > trim_max_samples(channel)
                           THEN <<keep_recent(total_audio[channel], trim_max_samples(channel))>>
                           ELSE chan[channel]._audio_buffer
       IN  /\ chan' = [chan EXCEPT ![channel] = [@ EXCEPT !._audio_buffer = audio_buffer]]
           /\ trimmed' = [trimmed EXCEPT ![channel] =
                             [audio_buffer |-> audio_buffer, captured |-> chan[channel].captured]]
    /\ _buffer_locks' = [_buffer_locks EXCEPT ![channel] = ""]
    /\ total_audio' = [total_audio EXCEPT ![channel] = <<>>]
    /\ pc' = [pc EXCEPT ![channel] = "layer_a"]
    /\ UNCHANGED <<_running, now, current_time, last_buffer_trim, uuid_count,
                   emitted, ended, recent_audio>>

NextBuffer ==
    \/ \E channel \in Channels, n \in BufferFrameSizes :
          /\ chan[channel].captured + n <= BufferCaptured[channel]
          /\ _handle_audio_frame(channel, n)
          /\ UNCHANGED notWp
    \/ \E channel \in Channels : copy_layer_a(channel) /\ UNCHANGED notBuf
    \/ \E channel \in Channels : copy_layer_b(channel) /\ UNCHANGED notBuf
    \/ \E channel \in Channels : trim_enter(channel) /\ UNCHANGED notBuf
    \/ \E channel \in Channels : trim_leave(channel) /\ UNCHANGED notBuf

SpecBuffer == Init /\ [][NextBuffer]_vars

-----------------------------------------------------------------------------
(* The caption engine's specification.                                     *)

NextEngine ==
    \/ \E recorders_ok \in BOOLEAN, devices \in Devices :
          engine_start(recorders_ok, devices) /\ UNCHANGED notEng
    \/ engine_stop /\ UNCHANGED notEng
    \/ processor_stop /\ UNCHANGED notEng
    \/ whisper_stop /\ UNCHANGED <<cmVars, bufVars, busVars, startVars, vadVars, restartVars, chan, now, pc,
                                   current_time, last_buffer_trim, uuid_count,
                                   emitted, ended>>
    \/ \E channel \in Channels : _handle_stream(channel) /\ UNCHANGED notEng
    \/ pump_test /\ UNCHANGED notEng
    \/ pump_exit /\ UNCHANGED notEng
    \/ pump_get /\ UNCHANGED notEng
    \/ pump_timeout /\ UNCHANGED notEng
    \/ \E channel \in Channels : _process_loop(channel) /\ UNCHANGED notEng
    \/ _speaker_monitor_loop /\ UNCHANGED notEng

SpecEngine == Init /\ [][NextEngine]_vars

-----------------------------------------------------------------------------
(* The event bus's specification.                                          *)

NextBus ==
    \/ \E topic \in Topics, handler \in Handlers :
          subscribe(topic, handler) /\ UNCHANGED notBus
    \/ \E topic \in Topics, handler \in Handlers :
          unsubscribe(topic, handler) /\ UNCHANGED notBus
    \/ \E topic \in Topics, payload \in Payloads, raising \in SUBSET Handlers :
          bus_emit(topic, payload, raising) /\ UNCHANGED notBus

SpecBus == Init /\ [][NextBus]_vars

-----------------------------------------------------------------------------
(* The specification of the processor's restarts.                          *)

NextStartup ==
    \/ whisper_start /\ UNCHANGED notStart
    \/ whisper_restart_stop /\ UNCHANGED notStart
    \/ \E file \in Files : file_change(file) /\ UNCHANGED notStart
    \/ \E channel \in Channels :
          loop_exit(channel) /\ UNCHANGED <<notStart, files, whisper, startup>>

SpecStartup == Init /\ [][NextStartup]_vars

-----------------------------------------------------------------------------
(* The caption frames the two CaptionManager specifications feed in.       *)

\* Final frames with every start and end time (None, inverted and empty
\* intervals included), and a few partial frames.
TimelineFrames ==
    {Frame(hello_world, "mic", 95, FALSE, s, e, "C", "u1") :
        s \in 0..MaxTime, e \in {NoneT} \cup (0..MaxTime)}
    \cup
    {Frame(hello_world, "speaker", 95, FALSE, 1, MaxTime, "C", "u1")}
    \cup
    {Frame(hello_wor, c, 50, TRUE, 1, NoneT, "A", "u1") : c \in Channels}

\* Confidences in hundredths.  On every pair of them the difference in
\* hundredths exceeds 15 exactly when Python's float difference exceeds
\* 0.15 (0.95 - 0.8 does not).
Confidences == {50, 75, 80, 95}

\* Partial frames of the mic channel with every text, layer and confidence,
\* a final frame of the mic channel, and a partial frame of the speaker
\* channel.
PartialFrames ==
    {Frame(t, "mic", conf, TRUE, 1, NoneT, l, "u1") :
        t \in Texts, conf \in Confidences, l \in {"A", "B"}}
    \cup
    {Frame(hello_world, "mic", 95, FALSE, 1, MaxTime, "C", "u1")}
    \cup
    {Frame(hello_wor, "speaker", 50, TRUE, 1, NoneT, "A", "u1")}

NextTimeline ==
    \/ \E frame \in TimelineFrames : add_caption(frame) /\ UNCHANGED notCm
    \/ \E channel \in Channels : clear_channel(channel) /\ UNCHANGED notCm

SpecTimeline == Init /\ [][NextTimeline]_vars

NextPartials ==
    \/ \E frame \in PartialFrames : add_caption(frame) /\ UNCHANGED notCm
    \/ \E channel \in Channels : clear_channel(channel) /\ UNCHANGED notCm

SpecPartials == Init /\ [][NextPartials]_vars

\* The trailing windows asked for, and the times of the asking.
Seconds == {1, 10}

NextQueries ==
    \/ \E frame \in TimelineFrames : add_caption(frame) /\ UNCHANGED notCm
    \/ \E channel \in Channels : clear_channel(channel) /\ UNCHANGED notCm
    \/ \E channel \in Channels : get_timeline(channel) /\ UNCHANGED notCm
    \/ clear_returned /\ UNCHANGED notCm
    \/ \E channel \in Channels : get_active_partial(channel) /\ UNCHANGED notCm
    \/ \E channel \in Channels, seconds \in Seconds, time \in MaxTime..(MaxTime + 1) :
          get_recent_text(channel, seconds, time) /\ UNCHANGED notCm

SpecQueries == Init /\ [][NextQueries]_vars

\* The detector of the microphone channel fed frame by frame.
NextHangover ==
    \E is_speech \in BOOLEAN : vad_process_frame("mic", is_speech) /\ UNCHANGED notVad

SpecHangover == Init /\ [][NextHangover]_vars

\* The gate asked about windows on both channels.
NextGate ==
    \E channel \in Channels, audio_data \in Windows :
        detect_speech(channel, audio_data) /\ UNCHANGED notVad

SpecGate == Init /\ [][NextGate]_vars

\* The processor stopped and started again while its worker threads run and
\* the capture delivers frames of the microphone.
NextRestart ==
    \/ restart_start /\ UNCHANGED notRestart
    \/ restart_stop /\ UNCHANGED notRestart
    \/ \E channel \in Channels, i \in 1..(MaxRestartCalls + 1) :
          /\ i <= Len(workers[channel])
          /\ worker_test(channel, i)
          /\ UNCHANGED notRestart
    \/ \E channel \in Channels, i \in 1..(MaxRestartCalls + 1) :
          /\ i <= Len(workers[channel])
          /\ worker_layer_a(channel, i)
          /\ UNCHANGED notRestart
    \/ \E channel \in Channels, i \in 1..(MaxRestartCalls + 1) :
          /\ i <= Len(workers[channel])
          /\ worker_layer_b(channel, i)
          /\ UNCHANGED notRestart
    \/ \E channel \in Channels, i \in 1..(MaxRestartCalls + 1) :
          /\ i <= Len(workers[channel])
          /\ worker_trim(channel, i)
          /\ UNCHANGED notRestart
    \/ \E n \in FrameSizes : deliver("mic", n) /\ UNCHANGED notRestart

SpecRestart == Init /\ [][NextRestart]_vars

-----------------------------------------------------------------------------
(* Properties of the caption timeline.                                     *)

\* Two blocks share more than an end point of their intervals.
Intersect(a, b) == a.start_time < b.end_time /\ b.start_time < a.end_time

\* C1: in every channel, no two blocks of the timeline have overlapping
\* [start_time, end_time] intervals, whatever frames add_caption received.
C1_NonOverlap ==
    \A c \in Channels :
        \A i, j \in 1..Len(_timeline[c]) :
            i # j => ~Intersect(_timeline[c][i], _timeline[c][j])

\* A final frame removed a block it overlapped and the timeline holds two blocks.
C1_Witness ==
    /\ call.op = "add_caption"
    /\ ~call.block.is_partial
    /\ ~_inserted[call.channel].disjoint
    /\ Len(_timeline[call.channel]) >= 2

\* C2: right after add_caption processed a final frame of a channel, the
\* channel has no active partial.
C2_FinalClearsPartial ==
    (call.op = "add_caption" /\ ~call.block.is_partial)
        => _active_partial[call.channel] = None

\* A final frame arrived while a partial was active.
C2_Witness ==
    /\ call.op = "add_caption"
    /\ ~call.block.is_partial
    /\ call.prev # None

\* C3: a timeline never holds more than max_history blocks, and n pairwise
\* non-overlapping final blocks leave min(n, max_history) blocks: those with
\* the largest start_time.
C3_HistoryCap ==
    \A c \in Channels :
        LET tl  == _timeline[c]
            ins == _inserted[c]
        IN  /\ Len(tl) <= max_history
            /\ ins.disjoint =>
                  /\ Len(tl) = Min(ins.n, max_history)
                  /\ [i \in 1..Len(tl) |-> tl[i].start_time]
                        = SubSeq(ins.starts, ins.n - Len(tl) + 1, ins.n)
                  /\ \A i \in 1..Len(tl) :
                        [start_time |-> tl[i].start_time, end_time |-> tl[i].end_time] \in ins.blocks

\* More than max_history + 1 pairwise non-overlapping finals were added, and
\* a block that was dropped started before every block that was kept.
C3_Witness ==
    \E c \in Channels :
        /\ _inserted[c].disjoint
        /\ _inserted[c].n = max_history + 2
        /\ Len(_timeline[c]) = max_history
        /\ _inserted[c].starts[1] < _timeline[c][1].start_time

-----------------------------------------------------------------------------
(* Properties of the active partial.                                       *)

\* The last call was add_caption with a partial frame while the channel had
\* an active partial.
PartialOnActive ==
    /\ call.op = "add_caption"
    /\ call.block.is_partial
    /\ call.prev # None

\* The block of the last call was of a strictly higher layer than the active
\* partial, or more than 0.15 more confident.
HigherOrMoreConfident ==
    \/ layer_priority[call.block.layer] > layer_priority[call.prev.layer]
    \/ call.block.confidence - call.prev.confidence > 15

\* The text of the block of the last call was more than 0.7 similar to the
\* text of the active partial.
SimilarTexts ==
    SimilarityAbove07(text_similarity(call.block.text, call.prev.text))

\* C8: a partial frame of a strictly higher layer, or more than 0.15 more
\* confident, than the active partial replaces it with its text unchanged and
\* is returned, whatever the similarity of the two texts.
C8_ReplaceRule ==
    (PartialOnActive /\ HigherOrMoreConfident)
        => /\ _active_partial[call.channel] = call.block
           /\ call.ret = call.block

\* A replacing partial whose text a merge would have changed.
C8_Witness ==
    /\ PartialOnActive
    /\ HigherOrMoreConfident
    /\ SimilarTexts
    /\ _merge_texts(call.prev.text, call.block.text) # call.block.text
    /\ call.ret = call.block

\* C9: a partial frame that is neither of a higher layer nor more than 0.15
\* more confident than the active partial, with text similarity at most 0.7,
\* is suppressed: add_caption returns None and leaves the active partial and
\* the timelines as they were.
C9_Suppressed ==
    [][\A c \in Channels :
          ( /\ call'.op = "add_caption"
            /\ call'.channel = c
            /\ call'.block.is_partial
            /\ _active_partial[c] # None
            /\ ~(layer_priority[call'.block.layer] > layer_priority[_active_partial[c].layer])
            /\ ~(call'.block.confidence - _active_partial[c].confidence > 15)
            /\ ~SimilarityAbove07(text_similarity(call'.block.text, _active_partial[c].text)) )
          => /\ call'.ret = None
             /\ _active_partial' = _active_partial
             /\ _timeline' = _timeline]_vars

\* A partial with a different, non-empty text was suppressed.
C9_Witness ==
    /\ PartialOnActive
    /\ ~HigherOrMoreConfident
    /\ ~SimilarTexts
    /\ call.block.text # <<>>
    /\ call.prev.text # <<>>
    /\ call.ret = None
    /\ _active_partial[call.channel] = call.prev

\* C10: a merged partial carries the longer text if one text is a
\* case-insensitive substring of the other, and the newer text otherwise;
\* "hello wor" merged with "hello world" gives "hello world", and a new text
\* that is a truncation of the active text keeps the active text.
C10_MergeTexts ==
    (PartialOnActive /\ ~HigherOrMoreConfident /\ SimilarTexts)
        => LET old == call.prev.text
               new == call.block.text
               res == _active_partial[call.channel].text
           IN  /\ call.ret = _active_partial[call.channel]
               /\ _active_partial[call.channel] = [call.block EXCEPT !.text = res]
               /\ IF contains(lower(new), lower(old)) \/ contains(lower(old), lower(new))
                  THEN res \in {old, new} /\ Len(res) = Max(Len(old), Len(new))
                  ELSE res = new
               /\ (old = hello_wor /\ new = hello_world) => res = hello_world
               /\ (startswith(old, new) /\ Len(new) < Len(old)) => res = old

\* A truncated new text was merged into the active partial "hello world".
C10_Witness ==
    /\ PartialOnActive
    /\ ~HigherOrMoreConfident
    /\ SimilarTexts
    /\ call.prev.text = hello_world
    /\ call.block.text = hello_wor
    /\ _active_partial[call.channel].text = hello_world

-----------------------------------------------------------------------------
(* Properties of the three-layer scheduler.                                *)

\* The layers of the frames the channel has emitted for its utterance u.
layers_of(channel, u) ==
    {emitted[channel][i].frame.layer :
        i \in {j \in DOMAIN emitted[channel] : emitted[channel][j].utterance = u}}

\* Layer C has just finalized the channel's utterance.
finalized(channel) ==
    /\ Len(ended'[channel]) = Len(ended[channel]) + 1
    /\ chan'[channel]._utterance_start = NoneT
    /\ chan'[channel]._current_layer = ""

\* C4: once Layer B is the active layer of a channel's utterance, every step
\* (a later Layer A firing in particular) leaves it B, until the step in which
\* Layer C finalizes the utterance.
C4_LayerMonotonic ==
    [][\A channel \in Channels :
          chan[channel]._current_layer = "B"
          => \/ chan'[channel]._current_layer = "B"
                /\ chan'[channel]._utterance_start = chan[channel]._utterance_start
             \/ finalized(channel)]_vars

\* Layer B is active and Layer A has fired and emitted after Layer B did.
C4_Witness ==
    \E channel \in Channels :
        LET log == emitted[channel]
        IN  /\ chan[channel]._current_layer = "B"
            /\ Len(log) >= 2
            /\ log[Len(log)].frame.layer = "A"
            /\ log[Len(log) - 1].frame.layer = "B"
            /\ log[Len(log)].utterance = log[Len(log) - 1].utterance

\* C5: two frames a channel has emitted carry the same caption_id exactly
\* when they belong to the same utterance.
C5_CaptionIdPerUtterance ==
    \A channel \in Channels :
        \A i, j \in DOMAIN emitted[channel] :
            (emitted[channel][i].utterance = emitted[channel][j].utterance)
            <=> (emitted[channel][i].frame.caption_id = emitted[channel][j].frame.caption_id)

\* One utterance of a channel has frames of all three layers.
C5_Witness ==
    \E channel \in Channels :
        \E u \in 1..chan[channel].utterances : layers_of(channel, u) = {"A", "B", "C"}

\* The Layer C frames the channel has emitted with the caption id.
finals_of(channel, caption_id) ==
    {i \in DOMAIN emitted[channel] :
        /\ emitted[channel][i].frame.caption_id = caption_id
        /\ emitted[channel][i].frame.layer = "C"
        /\ emitted[channel][i].frame.is_partial = FALSE
        /\ emitted[channel][i].frame.confidence = 95}

\* C6 as stated: every utterance that has ended has exactly one Layer C frame.
C6_ExactlyOneFinal ==
    \A channel \in Channels :
        \A k \in DOMAIN ended[channel] :
            Cardinality(finals_of(channel, ended[channel][k].caption_id)) = 1

\* C6, amended: no caption id ever has more than one Layer C frame; an
\* utterance that has ended has one when its final transcription gave a text
\* and none when it gave the empty text; an utterance still going on has none.
C6_OneFinalIfText ==
    \A channel \in Channels :
        /\ \A k \in DOMAIN ended[channel] :
              Cardinality(finals_of(channel, ended[channel][k].caption_id))
                 = IF ended[channel][k].text # <<>> THEN 1 ELSE 0
        /\ \A k, l \in DOMAIN ended[channel] :
              ended[channel][k].caption_id = ended[channel][l].caption_id => k = l
        /\ chan[channel]._utterance_start # NoneT
              => finals_of(channel, chan[channel]._active_caption_id) = {}

\* Sustained silence has ended an utterance whose final transcription gave a
\* text, and the channel is idle again.
C6_Witness ==
    \E channel \in Channels :
        /\ chan[channel]._utterance_start = NoneT
        /\ \E k \in DOMAIN ended[channel] : ended[channel][k].text # <<>>

\* C7: in a channel's frames, none that follows a Layer C frame carries its
\* caption_id.
C7_FinalIsLast ==
    \A channel \in Channels :
        \A i, j \in DOMAIN emitted[channel] :
            (i < j /\ emitted[channel][i].frame.layer = "C")
            => emitted[channel][j].frame.caption_id # emitted[channel][i].frame.caption_id

\* A channel has emitted a partial after a Layer C frame.
C7_Witness ==
    \E channel \in Channels :
        \E i, j \in DOMAIN emitted[channel] :
            /\ i < j
            /\ emitted[channel][i].frame.layer = "C"
            /\ emitted[channel][j].frame.is_partial

-----------------------------------------------------------------------------
(* Properties of the audio buffer.                                         *)

\* The samples of the channel's audio buffer, oldest first.
buffered(channel) == concatenate(chan[channel]._audio_buffer)

\* The worker of the channel leaves _trim_audio_buffer in this step.
trim_returns(channel) == pc[channel] = "trimming" /\ pc'[channel] = "layer_a"

\* C11: a _trim_audio_buffer that returns with no sample appended since the
\* previous one returned leaves the audio buffer exactly as the previous one
\* left it.
C11_TrimIdempotent ==
    [][\A channel \in Channels :
          (/\ trim_returns(channel)
           /\ trimmed[channel] # None
           /\ trimmed[channel].captured = chan[channel].captured)
          => chan'[channel]._audio_buffer = trimmed[channel].audio_buffer]_vars

\* A buffer of more than 5 s was trimmed, and trimmed again with no append
\* in between.
C11_Witness ==
    \E channel \in Channels :
        /\ trimmed[channel] # None
        /\ trimmed[channel].captured = chan[channel].captured
        /\ pc[channel] = "trimming"
        /\ chan[channel].captured > trim_max_samples(channel)
        /\ Len(buffered(channel)) = trim_max_samples(channel)

\* C12: right after a _trim_audio_buffer the buffer holds at most 5 s of
\* samples, and they are the last min(length, 5 s) samples the buffer held
\* before, in order.
C12_TrimKeepsRecent ==
    [][\A channel \in Channels :
          trim_returns(channel)
          => LET before == buffered(channel)
                 after  == concatenate(chan'[channel]._audio_buffer)
                 kept   == IF Len(before) < 5 * _sample_rate THEN Len(before)
                           ELSE 5 * _sample_rate
             IN  /\ Len(after) <= 5 * _sample_rate
                 /\ Len(after) = kept
                 /\ \A i \in 1..kept : after[i] = before[Len(before) - kept + i]]_vars

\* A trim has discarded samples.
C12_Witness ==
    \E channel \in Channels :
        /\ trimmed[channel] # None
        /\ Len(concatenate(trimmed[channel].audio_buffer)) < trimmed[channel].captured

\* C13: the audio buffer always holds the most recent samples appended, each
\* once and in the order of their arrival, up to the last one appended.
C13_ContiguousSuffix ==
    \A channel \in Channels :
        LET audio == buffered(channel)
        IN  \A i \in 1..Len(audio) :
                audio[i] = chan[channel].captured - Len(audio) + i

\* A frame was appended after a trim that discarded samples, and the worker
\* has copied the buffer since.
C13_Witness ==
    \E channel \in Channels :
        /\ trimmed[channel] # None
        /\ Len(concatenate(trimmed[channel].audio_buffer)) < trimmed[channel].captured
        /\ trimmed[channel].captured < chan[channel].captured
        /\ recent_audio[channel] = chan[channel]._audio_buffer

-----------------------------------------------------------------------------
(* Properties of the silence counter and of failing backend calls.         *)

\* C14: while an utterance is active the silence counter is the number of
\* Layer B evaluations classified silence since the utterance started or was
\* last classified speech, and it stays below 2; every utterance Layer C has
\* finalized had exactly 2 such evaluations; with no utterance the counter
\* is 0.
C14_FinalizeAtTwoSilences ==
    \A channel \in Channels :
        /\ chan[channel]._utterance_start # NoneT
              => /\ chan[channel]._silence_counter = chan[channel].silent_evaluations
                 /\ chan[channel].silent_evaluations < 2
        /\ chan[channel]._utterance_start = NoneT => chan[channel]._silence_counter = 0
        /\ \A k \in DOMAIN ended[channel] : ended[channel][k].silent_evaluations = 2

\* An utterance with a Layer B frame (an evaluation classified speech) was
\* finalized.
C14_Witness ==
    \E channel \in Channels :
        \E k \in DOMAIN ended[channel], i \in DOMAIN emitted[channel] :
            /\ emitted[channel][i].frame.layer = "B"
            /\ emitted[channel][i].frame.caption_id = ended[channel][k].caption_id

\* The backend calls that fail: whisper-cli exits with an error, times out,
\* or something raises.
FailedResults == {result \in BackendResults : result.raised # "" \/ result.returncode # 0}

\* The layer accumulations and the active layer are the same in s and t.
same_layers(s, t) ==
    /\ s._layer_a_accumulated = t._layer_a_accumulated
    /\ s._layer_b_accumulated = t._layer_b_accumulated
    /\ s._current_layer = t._current_layer

\* C15: in every state, a Layer A firing or a Layer B firing whose
\* transcription call fails returns, emits no frame and leaves the layer
\* accumulations and the active layer as they are (the Layer B firings meant
\* are those that reach Layer B's own transcription, voice activity being
\* detected).
C15_FailedCallIsEmptyText ==
    \A channel \in Channels, result \in FailedResults :
        LET text == _transcribe_audio_data(result)
            a == _process_layer_a(chan[channel], channel, now, TRUE, text, uuid_count + 1)
            b == _process_layer_b(chan[channel], channel, now, TRUE, text)
        IN  /\ text = <<>>
            /\ a.out = <<>> /\ same_layers(a.s, chan[channel])
            /\ b.out = <<>> /\ same_layers(b.s, chan[channel]) /\ b.ended = <<>>

\* An utterance is active for which every Layer A transcription so far,
\* the one that started it included, gave no text, and Layer B has taken
\* over since.
C15_Witness ==
    \E channel \in Channels :
        /\ chan[channel]._current_layer = "B"
        /\ chan[channel]._layer_b_accumulated # <<>>
        /\ chan[channel]._layer_a_accumulated = <<>>
        /\ chan[channel]._utterance_start # NoneT

-----------------------------------------------------------------------------
(* The caption engine's properties.                                        *)

\* Everything but the history of the calls.
observable == <<cmVars, wpVars, bufVars, engine, stt, capture, pump, _queue,
                published, produced>>

\* The call that was just made is op.
returns(op) == api'.n # api.n /\ api'.op = op

\* C16: stop() is idempotent, for the engine and for both processors: a
\* stop() on an object that is not running changes nothing, and every stop()
\* leaves its object not running, so that a second stop() in a row finds
\* nothing to do.
C16_StopIdempotent ==
    [][ /\ returns("CaptionEngine.stop")
           => /\ ~engine'._running
              /\ (~engine._running => UNCHANGED observable)
        /\ returns("RealtimeSTTProcessor.stop")
           => /\ ~stt'._running
              /\ (~stt._running => UNCHANGED observable)
        /\ returns("WhisperProcessor.stop")
           => /\ ~_running'
              /\ (~_running => UNCHANGED observable) ]_vars

\* The engine was started with a processor and a capture that run, and
\* stop() was called twice in a row.
C16_Witness ==
    /\ api.op = "CaptionEngine.stop"
    /\ api.previous = "CaptionEngine.stop"
    /\ ~api.running
    /\ stt._recorders = "stopped"
    /\ published = 2

-----------------------------------------------------------------------------
(* The scheduler after stop().                                             *)

\* C17: once WhisperProcessor.stop() has returned, no channel worker emits a
\* further caption frame.
C17_NoFrameAfterStop ==
    [][~_running => emitted' = emitted]_vars

\* The step is one of the channel: its worker moves on in _process_loop, or
\* a frame of the channel is appended.
acts(channel) ==
    \/ pc'[channel] # pc[channel]
    \/ chan'[channel].captured # chan[channel].captured

delivers(channel) ==
    /\ IF channel = "mic" THEN capture._mic_stream ELSE capture._speaker_stream
    /\ pump.loop + pump.get > 0

\* C19: when the engine has been started and its processor has started the
\* capture, every channel whose audio source is available delivers frames,
\* whether or not the other channel's source could be opened.
C19_OtherChannelDelivers ==
    (api.op = "CaptionEngine.start" /\ ~api.running /\ stt._running)
    => \A channel \in Channels : api.devices[channel] => delivers(channel)

\* C20: a frame that a stream calls back with while the capture is running
\* is not rejected: it is the newest frame of the queue afterwards, whatever
\* had to be discarded for it.
C20_NewFrameNotRejected ==
    [][\A channel \in Channels :
          (capture._running /\ produced'[channel] # produced[channel])
          => /\ _queue' # <<>>
             /\ _queue'[Len(_queue')] = [channel |-> channel, n |-> produced'[channel]]]_vars

-----------------------------------------------------------------------------
(* The event bus's properties.                                             *)

\* The handlers that were subscribed to the topic when the last call was
\* made, in subscription order.
subscribers_then == bus.before[bus.topic]

\* Some handler that was subscribed to the emission's topic raised.
handler_raised ==
    \E i \in 1..Len(subscribers_then) : subscribers_then[i] \in bus.raising

\* Every handler subscribed to the topic was called exactly once with the
\* payload, in subscription order, and no other handler was called.
all_invoked ==
    /\ Len(received) = Len(subscribers_then)
    /\ \A i \in 1..Len(received) :
          received[i] = [handler |-> subscribers_then[i], payload |-> bus.payload]

\* C21, as stated: emit invokes every handler subscribed to the topic exactly
\* once with the payload, in subscription order, and no handler of another
\* topic only.
C21_EmitInvokesAll == bus.op = "emit" => all_invoked

\* C21, amended: emit does so when no subscribed handler raises; when one
\* raises, the handlers up to and including the first that raises were each
\* called once, in subscription order, and none after it.
C21_EmitInvokesUntilRaise ==
    bus.op = "emit"
    => /\ ~handler_raised => all_invoked
       /\ Len(received) <= Len(subscribers_then)
       /\ \A i \in 1..Len(received) :
             /\ received[i] = [handler |-> subscribers_then[i], payload |-> bus.payload]
             /\ i < Len(received) => subscribers_then[i] \notin bus.raising
       /\ Len(received) < Len(subscribers_then)
          => received # <<>> /\ received[Len(received)].handler \in bus.raising

\* Two handlers of the topic were called in subscription order, the order
\* not being that of their names, while a third handler is subscribed to the
\* other topic only.
C21_Witness ==
    /\ bus.op = "emit"
    /\ bus.topic = "caption.frame"
    /\ bus.before["caption.frame"] = <<"h2", "h1">>
    /\ bus.before["audio.level"] = <<"h3">>
    /\ ~handler_raised
    /\ Len(received) = 2

-----------------------------------------------------------------------------
(* The properties of WhisperProcessor.start.                               *)

\* The models start() found in place.
models_found == startup.files \cap {"medium", "tiny"}

\* C22: a start() of a stopped processor succeeds whenever whisper-cli and the
\* model of at least one tier are in place, and when exactly one model is in
\* place both tiers use it; it fails only when no tier's model is in place
\* (or whisper-cli itself is missing).
C22_DegradesToOneModel ==
    (startup.op = "start" /\ ~startup.running)
    => /\ startup.ret = ("whisper-cli.exe" \in startup.files /\ models_found # {})
       /\ (startup.ret /\ Cardinality(models_found) = 1)
          => /\ whisper._model_path \in models_found
             /\ whisper._model_path_fast \in models_found

-----------------------------------------------------------------------------
(* Properties of the CaptionManager's queries.                             *)

\* C23: get_timeline, get_active_partial and get_recent_text leave every
\* channel's timeline and active partial as they were, and so does a change
\* the caller makes to the list get_timeline returned.
C23_QueriesReadOnly ==
    [][call'.op \in {"get_timeline", "get_active_partial", "get_recent_text",
                     "clear_returned"}
       => UNCHANGED <<_timeline, _active_partial>>]_vars

\* The caller has cleared the list get_timeline gave it, and the channel's
\* timeline still holds two blocks, under an active partial.
C23_Witness ==
    /\ call.op = "clear_returned"
    /\ Len(_timeline[call.channel]) = 2
    /\ _active_partial[call.channel] # None

\* C24, as stated: clear_channel leaves the channel's timeline and active
\* partial as they were.
C24_ClearChannelReadOnly ==
    [][call'.op = "clear_channel"
       => /\ _timeline'[call'.channel] = _timeline[call'.channel]
          /\ _active_partial'[call'.channel] = _active_partial[call'.channel]]_vars

\* C24, amended: clear_channel empties the channel's timeline and removes its
\* active partial, and leaves the other channel's timeline and active partial
\* as they were.
C24_ClearChannelClears ==
    [][call'.op = "clear_channel"
       => /\ _timeline'[call'.channel] = <<>>
          /\ _active_partial'[call'.channel] = None
          /\ \A other \in Channels \ {call'.channel} :
                /\ _timeline'[other] = _timeline[other]
                /\ _active_partial'[other] = _active_partial[other]]_vars

\* The microphone channel was cleared while it had an active partial, and the
\* speaker channel still has its block and its active partial.
C24_Witness ==
    /\ call.op = "clear_channel"
    /\ call.channel = "mic"
    /\ call.prev # None
    /\ _timeline["mic"] = <<>>
    /\ _active_partial["mic"] = None
    /\ _timeline["speaker"] # <<>>
    /\ _active_partial["speaker"] # None

\* ---------------------------------------------------------------------------
\* Layer C finalize and the start of an utterance
\* ---------------------------------------------------------------------------

\* The channel's attributes say IDLE: no utterance start, nothing in the
\* utterance buffer, no accumulated text, no active layer, silence counter 0.
idle(s) ==
    /\ s._utterance_start = NoneT
    /\ s._utterance_buffer = <<>>
    /\ s._layer_a_accumulated = <<>>
    /\ s._layer_b_accumulated = <<>>
    /\ s._current_layer = ""
    /\ s._silence_counter = 0

\* What _check_layer_c_finalize does in state s with each backend text: with
\* an utterance it leaves the channel idle, without one it changes nothing but
\* the silence counter and emits nothing.
finalize_ends_idle(s, channel) ==
    \A text \in BackendTexts :
        LET r == _check_layer_c_finalize(s, channel, now, text)
        IN  IF s._utterance_start # NoneT
            THEN idle(r.s)
            ELSE r.s = [s EXCEPT !._silence_counter = 0] /\ r.out = <<>> /\ r.ended = <<>>

\* C25: Layer C finalize on a channel with an active utterance ends with the
\* channel idle (utterance start cleared, utterance buffer empty, both
\* accumulated texts empty, no active layer, silence counter 0), whether or
\* not the backend returned text; with no active utterance it changes nothing
\* except the silence counter, which becomes 0.  Stated for finalize applied
\* to every reachable state of a channel, to the state Layer B hands it after
\* a counted silence, and for every step in which an utterance ends.
C25_FinalizeReturnsToIdle ==
    /\ [](\A channel \in Channels :
            /\ finalize_ends_idle(chan[channel], channel)
            /\ finalize_ends_idle([chan[channel] EXCEPT !._silence_counter = @ + 1], channel))
    /\ [][\A channel \in Channels :
            Len(ended'[channel]) > Len(ended[channel]) => idle(chan'[channel])]_vars

\* An utterance of the microphone ended without text from the backend after
\* Layer A had accumulated text for it, and the channel is idle.
C25_Witness ==
    /\ Len(ended["mic"]) = 1
    /\ ended["mic"][1].text = <<>>
    /\ Len(emitted["mic"]) > 0
    /\ idle(chan["mic"])

\* What a Layer A and a Layer B firing do to an idle channel in state s, for
\* every answer of the voice activity gate and of the backend: Layer A starts
\* an utterance exactly when it had 200 ms of audio and the gate said speech,
\* and then with the new id and the time of the firing; Layer B never does.
starts_only_on_speech(s, channel) ==
    \A is_speech \in BOOLEAN, text \in BackendTexts :
        LET a == _process_layer_a(s, channel, now, is_speech, text, uuid_count + 1)
            b == _process_layer_b(s, channel, now, is_speech, text)
            enough == Len(concatenate(s._audio_buffer)) >= _layer_a_min_samples
        IN  s._utterance_start = NoneT
            => /\ IF is_speech /\ enough
                  THEN /\ a.s._utterance_start = now
                       /\ a.s._active_caption_id = uuid_count + 1
                       /\ a.s.utterances = s.utterances + 1
                  ELSE a.s = s /\ a.out = <<>>
               /\ b.s._utterance_start = NoneT
               /\ b.s.utterances = s.utterances
               /\ b.s._utterance_buffer = s._utterance_buffer

\* C26: a channel leaves IDLE (an utterance is created with a fresh id and
\* start time) only in a Layer A firing in which the voice activity gate
\* classified the window as speech; a firing classified as silence, a firing
\* with less than 200 ms of buffered audio, and any Layer B firing never start
\* an utterance.
C26_UtteranceStartsInLayerAOnSpeech ==
    /\ [](\A channel \in Channels : starts_only_on_speech(chan[channel], channel))
    /\ [][\A channel \in Channels :
            (chan[channel]._utterance_start = NoneT /\ chan'[channel]._utterance_start # NoneT)
            => /\ pc[channel] = "layer_a" /\ pc'[channel] = "layer_b"
               /\ Len(concatenate(chan[channel]._audio_buffer)) >= _layer_a_min_samples
               /\ chan'[channel]._utterance_start = now
               /\ uuid_count' = uuid_count + 1
               /\ chan'[channel]._active_caption_id = uuid_count']_vars

\* The microphone's utterance was started by the Layer A firing it last ran,
\* while the speaker channel, with less than 200 ms of audio, has run Layer A
\* and Layer B firings and started none.
C26_Witness ==
    /\ chan["mic"]._utterance_start # NoneT
    /\ chan["mic"]._utterance_start = chan["mic"]._layer_a_last_process
    /\ chan["mic"]._active_caption_id = uuid_count
    /\ chan["speaker"]._layer_a_last_process > 0
    /\ chan["speaker"]._layer_b_last_process > 0
    /\ chan["speaker"]._utterance_start = NoneT
    /\ chan["speaker"].utterances = 0

\* ---------------------------------------------------------------------------
\* The utterance accumulation buffer
\* ---------------------------------------------------------------------------

\* The samples are in the order of their capture and none occurs twice
\* (samples are numbered by arrival).
in_capture_order(samples) ==
    \A i, j \in 1..Len(samples) : i < j => samples[i] < samples[j]

\* C27: over the Layer A and Layer B firings of one utterance each captured
\* chunk of audio is in the utterance buffer at most once: the utterance
\* buffer is an in-order subsequence of the captured audio without repeated
\* audio.
C27_NoRepeatedAudio ==
    \A channel \in Channels :
        in_capture_order(concatenate(chan[channel]._utterance_buffer))

\* ---------------------------------------------------------------------------
\* The accumulated texts of the layers and the text displayed
\* ---------------------------------------------------------------------------

\* C28: a Layer A or Layer B firing that yields non-empty text while the layer
\* has an accumulated text replaces it by the new text if the new text starts
\* with the leading part of the accumulated text, and otherwise makes it the
\* old text, a space and the new text; for Layer A also while Layer B is the
\* active layer.  Stated for the firings applied to every reachable state of a
\* channel, with speech detected and each non-empty text.
C28_MergeWithinLayer ==
    \A channel \in Channels, text \in MergeTexts \ {<<>>} :
        LET s == chan[channel]
            a == _process_layer_a(s, channel, now, TRUE, text, uuid_count + 1)
            b == _process_layer_b(s, channel, now, TRUE, text)
        IN  /\ (a.out # <<>> /\ s._layer_a_accumulated # <<>>)
               => a.s._layer_a_accumulated = merge_within_layer(s._layer_a_accumulated, text)
            /\ (b.out # <<>> /\ b.out[1].layer = "B" /\ s._layer_b_accumulated # <<>>)
               => b.s._layer_b_accumulated = merge_within_layer(s._layer_b_accumulated, text)

\* The Layer B text a Layer B firing with the text new_text accumulates in
\* state s, before anything of Layer A is put after it.
layer_b_merged(s, new_text) ==
    IF s._current_layer = "B" THEN merge_within_layer(s._layer_b_accumulated, new_text)
    ELSE new_text

\* C29: the text of every emitted partial frame follows the composition rule:
\* while Layer A is the active layer it is layer_a_accumulated; once Layer B
\* has fired it is layer_b_accumulated followed by the part of
\* layer_a_accumulated beyond layer_b_accumulated's length, if any; and
\* composing the display never alters layer_b_accumulated itself.  Stated for
\* the firings applied to every reachable state of a channel, with speech
\* detected and each non-empty text.
C29_DisplayComposition ==
    \A channel \in Channels, text \in MergeTexts \ {<<>>} :
        LET s == chan[channel]
            a == _process_layer_a(s, channel, now, TRUE, text, uuid_count + 1)
            b == _process_layer_b(s, channel, now, TRUE, text)
        IN  /\ a.out # <<>>
               => /\ a.out[1].text = IF a.s._current_layer = "B"
                                     THEN b_plus_a(a.s._layer_b_accumulated, a.s._layer_a_accumulated)
                                     ELSE a.s._layer_a_accumulated
                  /\ a.s._layer_b_accumulated = s._layer_b_accumulated
            /\ (b.out # <<>> /\ b.out[1].layer = "B")
               => /\ b.out[1].text = b_plus_a(layer_b_merged(s, text), s._layer_a_accumulated)
                  /\ b.s._layer_b_accumulated = layer_b_merged(s, text)

\* ---------------------------------------------------------------------------
\* The attributes of the frames of each layer
\* ---------------------------------------------------------------------------

\* The frame has the attributes of its layer and a text.
layer_attributes(frame) ==
    /\ frame.layer \in {"A", "B", "C"}
    /\ frame.layer = "A" => frame.is_partial /\ frame.confidence = 50
    /\ frame.layer = "B" => frame.is_partial /\ frame.confidence = 75
    /\ frame.layer = "C" => ~frame.is_partial /\ frame.confidence = 95
    /\ frame.text # <<>>

\* C30: every frame the layer scheduler emits has the fixed attributes of its
\* layer, whatever the backend answered: Layer A frames are partial with
\* confidence 0.5, Layer B frames partial with confidence 0.75, Layer C frames
\* non-partial with confidence 0.95; no frame with empty text is emitted.
C30_LayerAttributes ==
    \A channel \in Channels :
        \A i \in 1..Len(emitted[channel]) : layer_attributes(emitted[channel][i].frame)

\* The microphone channel emitted a frame of each layer.
C30_Witness ==
    \A layer \in {"A", "B", "C"} :
        \E i \in 1..Len(emitted["mic"]) : emitted["mic"][i].frame.layer = layer

-----------------------------------------------------------------------------
(* The order and the origin of the timeline's blocks.                      *)

\* The blocks are in non-decreasing order of start_time.
sorted_by_start_time(timeline) ==
    \A i, j \in 1..Len(timeline) : i < j => timeline[i].start_time <= timeline[j].start_time

\* C31: after any sequence of add_caption calls each channel's timeline is
\* sorted by non-decreasing start_time and holds only blocks made from
\* non-partial frames; an add_caption with a partial frame leaves every
\* timeline as it was (it adds, removes and reorders nothing).
C31_TimelineSortedAndFinal ==
    /\ [](\A channel \in Channels :
            /\ sorted_by_start_time(_timeline[channel])
            /\ \A i \in 1..Len(_timeline[channel]) : ~_timeline[channel][i].is_partial)
    /\ [][(call'.op = "add_caption" /\ call'.block.is_partial) => _timeline' = _timeline]_vars

\* A partial frame was added on the microphone channel, whose timeline holds
\* two blocks with different start times.
C31_Witness ==
    /\ call.op = "add_caption"
    /\ call.channel = "mic"
    /\ call.block.is_partial
    /\ Len(_timeline["mic"]) = 2
    /\ _timeline["mic"][1].start_time < _timeline["mic"][2].start_time

-----------------------------------------------------------------------------
(* Properties of the voice activity gate.                                  *)

\* C32: the voice activity gate keeps no state between calls: its result for
\* an audio window depends only on the window and the channel, so asking
\* about the same window after two different histories of earlier questions
\* gives the same result.
C32_GateStateless ==
    \A channel \in Channels, audio_data \in Windows :
        Cardinality(seen[channel][audio_data]) <= 1

\* C35: VADDetector.process_frame reports is_speech true exactly when one of
\* the last hangover_frames raw classifications, the current one included,
\* was speech: false when the detector has seen no speech, true for the
\* hangover_frames - 1 frames without speech that follow a frame of speech,
\* false again after hangover_frames frames without speech in a row.
C35_Hangover ==
    vad_call.op = "process_frame"
    => (vad_call.ret <=> /\ since_speech[vad_call.channel] # NoneT
                         /\ since_speech[vad_call.channel] < hangover_frames)

\* The microphone's detector saw a frame of speech and then hangover_frames
\* frames without speech, and reports no speech.
C35_Witness ==
    /\ vad_call.op = "process_frame"
    /\ since_speech["mic"] = hangover_frames
    /\ _vad["mic"].speech_count > 0
    /\ ~vad_call.ret

-----------------------------------------------------------------------------
(* The processor's restarts.                                               *)

\* The channel's worker threads that passed "while self._running" in the
\* current run of the processor and so are looping in it.
looping(channel) ==
    {i \in DOMAIN workers[channel] : workers[channel][i].run = restart.runs}

\* C33: after any sequence of start() and stop() calls at most one worker
\* thread per channel is looping, at most two in all: no worker of a previous
\* run loops next to the new one on the same channel.
C33_OneWorkerPerChannel ==
    \A channel \in Channels : Cardinality(looping(channel)) <= 1

\* C38: after any sequence of start() and stop() calls, a frame the capture
\* delivers while the processor is running is appended to its channel's
\* buffer exactly once, and a frame delivered while it is stopped is not
\* appended.
C38_FrameAppendedOnce ==
    restart.delivery # None =>
        restart.delivery.appended = IF restart.delivery.running THEN 1 ELSE 0

-----------------------------------------------------------------------------
(* The way of a caption frame from the worker to the sink.                 *)

\* The final frame is a block of its channel's timeline.
recorded(channel, frame) ==
    \E k \in DOMAIN _timeline[channel] : _timeline[channel][k] = CaptionBlock(frame)

\* The partial frame is what add_caption made the channel's active partial.
displayed(channel, frame) ==
    /\ _active_partial[channel] # None
    /\ _active_partial[channel].caption_id = frame.caption_id
    /\ _active_partial[channel].layer = frame.layer

\* C34: every frame emitted on caption.frame has passed through the
\* CaptionManager first: an emitted final frame is recorded in its channel's
\* timeline, and the partial frame emitted last on a channel is one that
\* add_caption returned, so it is the channel's active partial.
C34_FramesPassTimeline ==
    \A channel \in Channels : \A i \in DOMAIN emitted[channel] :
        LET frame == emitted[channel][i].frame
        IN  /\ ~frame.is_partial => recorded(channel, frame)
            /\ (frame.is_partial /\ i = Len(emitted[channel])) => displayed(channel, frame)

-----------------------------------------------------------------------------
(* The channel's attributes between the firings of its worker.             *)

\* C36: a channel that is IDLE (no utterance start recorded) has an empty
\* utterance buffer, empty Layer A and Layer B accumulated texts and no active
\* layer; the active layer is A only with a non-empty Layer A text and B only
\* with a non-empty Layer B text, and it is never C between two firings.
C36_IdleIsEmpty ==
    \A channel \in Channels :
        LET s == chan[channel]
        IN  /\ s._utterance_start = NoneT
               => /\ s._utterance_buffer = <<>>
                  /\ s._layer_a_accumulated = <<>>
                  /\ s._layer_b_accumulated = <<>>
                  /\ s._current_layer = ""
            /\ s._current_layer = "A" => s._layer_a_accumulated # <<>>
            /\ s._current_layer = "B" => s._layer_b_accumulated # <<>>
            /\ s._current_layer # "C"

\* The microphone is IDLE again after an utterance in which Layer B was the
\* active layer and which Layer C ended with a text.
C36_Witness ==
    /\ chan["mic"]._utterance_start = NoneT
    /\ Len(ended["mic"]) = 1
    /\ ended["mic"][1].text # <<>>
    /\ \E i \in 1..Len(emitted["mic"]) : emitted["mic"][i].frame.layer = "B"


\* What a Layer A firing does to the silence counter in state s, for every
\* answer of the voice activity gate and of the backend: nothing.
layer_a_keeps_counter(s, channel) ==
    \A is_speech \in BOOLEAN, text \in BackendTexts :
        _process_layer_a(s, channel, now, is_speech, text, uuid_count + 1).s._silence_counter
            = s._silence_counter

\* C37: between the firings of a channel's worker the silence counter is 0 or
\* 1, below the threshold of 2, and 0 when the channel is IDLE; Layer A never
\* changes it, and a step raises it only by one, in a Layer B firing on an
\* active utterance whose buffer, with the audio just copied, holds at least
\* 1 s of audio.
C37_SilenceCounter ==
    /\ [](\A channel \in Channels :
            /\ chan[channel]._silence_counter \in {0, 1}
            /\ chan[channel]._silence_counter < _silence_threshold_count
            /\ chan[channel]._utterance_start = NoneT => chan[channel]._silence_counter = 0
            /\ layer_a_keeps_counter(chan[channel], channel))
    /\ [][\A channel \in Channels :
            chan'[channel]._silence_counter > chan[channel]._silence_counter
            => /\ pc[channel] = "layer_b" /\ pc'[channel] = "trim"
               /\ chan'[channel]._silence_counter = chan[channel]._silence_counter + 1
               /\ chan[channel]._utterance_start # NoneT
               /\ Len(concatenate(chan[channel]._utterance_buffer \o chan[channel]._audio_buffer))
                     >= samples_in(channel_sample_rate(channel), 10)]_vars

\* The microphone's utterance has had one Layer B evaluation classified
\* silence: the counter is 1 and the utterance is still active.
C37_Witness ==
    /\ chan["mic"]._silence_counter = 1
    /\ chan["mic"]._utterance_start # NoneT
    /\ chan["mic"]._layer_b_last_process > chan["mic"]._utterance_start

-----------------------------------------------------------------------------
(* The two channels of the CaptionManager.                                 *)

\* C39: add_caption with a frame of one channel and clear_channel of one
\* channel leave the timeline and the active partial of the other channel as
\* they were.
C39_ChannelsIndependent ==
    [][call'.op \in {"add_caption", "clear_channel"}
       => \A other \in Channels \ {call'.channel} :
             /\ _timeline'[other] = _timeline[other]
             /\ _active_partial'[other] = _active_partial[other]]_vars

\* A final frame of the speaker channel was added while the microphone
\* channel had two blocks and an active partial, and it still has them.
C39_Witness ==
    /\ call.op = "add_caption"
    /\ call.channel = "speaker"
    /\ ~call.block.is_partial
    /\ Len(_timeline["mic"]) = 2
    /\ _active_partial["mic"] # None
    /\ _timeline["speaker"] # <<>>

-----------------------------------------------------------------------------
(* The layer of the active partial.                                        *)

\* The confidences the layers give their partial frames: 0.5 and 0.75.
layer_confidence == [A |-> 50, B |-> 75]

\* The partial block carries the confidence of its layer.
carries_layer_confidence(block) ==
    /\ block.layer \in DOMAIN layer_confidence
    /\ block.confidence = layer_confidence[block.layer]

\* C40: when the active partial and the incoming partial both carry the
\* confidence of their layer, add_caption never lowers the layer of the
\* channel's active partial: a Layer A partial does not take the place of a
\* Layer B partial, not even by the similar-text merge.
C40_LayerNeverDecreases ==
    [][(/\ call'.op = "add_caption"
        /\ call'.block.is_partial
        /\ call'.prev # None
        /\ carries_layer_confidence(call'.block)
        /\ carries_layer_confidence(call'.prev))
       => layer_priority[_active_partial'[call'.channel].layer]
             >= layer_priority[call'.prev.layer]]_vars

====
